---- MODULE Spec2Model ----
(***************************************************************************)
(* A model of the in-memory matching engine of the exchange backend        *)
(* (src/app/services/trading_engine/order_book.py, class OrderBook).       *)
(*                                                                         *)
(* Prices are integer ticks and quantities integer lots: arithmetic on     *)
(* them is exact, as the decimal discipline of the specification has it.   *)
(* The rounding of the source's binary floats (a + (q - a) need not equal  *)
(* q in doubles) is outside this model.  The registry                      *)
(* self.orders is a sequence indexed by order id (ids are handed out       *)
(* 1, 2, 3, ...).  A Python dict price -> OrderBookEntry is a sequence of  *)
(* entries in insertion order, a heapq list is a sequence holding the      *)
(* array layout heapq keeps.  Each public method is one action: the whole  *)
(* handler, with every helper it calls.                                    *)
(***************************************************************************)
EXTENDS Integers, Sequences, FiniteSets, TLC

\* ---------------------------------------------------------------- bounds
MaxOrders == 3
MaxQty == 2
MaxPrice == 2
MaxSockets == 3
MaxBroadcasts == 2
\* The retention bound of the trade log, 10 000 trades for a symbol, brought
\* down to the size of the model.
RetentionBound == 1

\* Optional[float] = None for price and stop_price.
NoPrice == 0

Symbols == {"BTC/USD"}
\* A second market, for the callers that trade two.
AllSymbols == Symbols \cup {"ETH/USD"}
Submitters == {1}
Requesters == {1, 2}
Prices == 1..MaxPrice
Quantities == 1..MaxQty

BUY == "buy"
SELL == "sell"
MARKET == "market"
LIMIT == "limit"
STOP == "stop"
PENDING == "pending"
PARTIAL == "partial"
FILLED == "filled"
CANCELLED == "cancelled"

OrderSide == {BUY, SELL}
OrderType == {MARKET, LIMIT, STOP}
OrderStatus == {PENDING, PARTIAL, FILLED, CANCELLED}

VARIABLES
    orders,         \* self.orders: id -> Order
    next_order_id,  \* self.next_order_id
    next_trade_id,  \* self.next_trade_id
    order_books,    \* self.order_books: symbol -> side key -> heap of <<heap_price, price>>
    price_levels,   \* self.price_levels: symbol -> side key -> entries (dict order)
    trades,         \* self.trades: symbol -> list of Trade
    result          \* the last call and how it returned

vars == <<orders, next_order_id, next_trade_id, order_books, price_levels, trades, result>>

\* Beside the engine: a caller that submits a batch of orders and cancels it
\* again, and the threads that call add_order at the same time.
VARIABLES
    round_trip,     \* the caller's notes: its phase, the book it found, its batch
    threads         \* thread -> where it stands in add_order, and its locals

\* The store-backed book (redis_order_book.py, class RedisOrderBook).
VARIABLES
    redis,          \* the Redis server: counters, hashes, sets, lists, sorted sets, streams
    clients,        \* client -> where it stands in RedisOrderBook.add_order, and its locals
    published       \* the messages PUBLISHed so far, in order

store_side == <<redis, clients, published>>

engine_side == <<vars, round_trip, threads>>

\* The order service in front of the store-backed book (order_service.py).
VARIABLES
    response,       \* the last request to the service and what came back
    canceller       \* a client in RedisOrderBook.cancel_order: where it stands, what it read

\* The engine read by its callers, with the wall clock that stamps its trades.
VARIABLES
    clock,          \* the last value datetime.utcnow() gave a trade
    executed_at,    \* symbol -> the executed_at of each trade of self.trades[symbol]
    reading         \* the last read call and what it returned

reads_side == <<clock, executed_at, reading>>

\* The WebSocket side (routes/websocket.py): the ConnectionManager, the sockets
\* of its clients and the listener that broadcasts what the store publishes.
VARIABLES
    active_connections, \* manager.active_connections: symbol -> list of sockets
    total_connections,  \* manager.total_connections
    stats,              \* manager.stats
    sockets,            \* socket -> where its handler stands, its symbol, what it was sent
    broadcast           \* the listener: the broadcast_to_symbol call it is in

socket_side == <<active_connections, total_connections, stats, sockets, broadcast>>

\* What the engine, its callers and the store's clients never touch.
outer == <<response, canceller, reads_side, socket_side>>

\* What the order service, and what the readers of the engine, never touch.
beside_service == <<engine_side, clients, canceller, reads_side, socket_side>>
beside_reads == <<round_trip, threads, store_side, response, canceller, socket_side>>
beside_sockets == <<engine_side, store_side, response, canceller, reads_side>>

\* The sockets that clients open, and ConnectionManager(...) as constructed
\* (lines 217-221), with limits small enough to be met.
Sockets == 1..MaxSockets
max_connections_per_symbol == 2
max_total_connections == 3

\* self.stats after __init__ (lines 31-37).
NoStats ==
    [total_connections |-> 0, symbols_count |-> 0, connections_per_symbol |-> <<>>,
     messages_sent |-> 0, errors_count |-> 0]

NewSocket == [pc |-> "new", symbol |-> "", first |-> "", inbox |-> <<>>]

IdleBroadcast ==
    [pc |-> "idle", symbol |-> "", seq |-> 0, connections |-> <<>>, results |-> <<>>]

\* What stands still while the engine is called by one caller, call after call.
bystanders == <<round_trip, threads, store_side, outer>>


\* ------------------------------------------------------------ dataclasses
Order(id, user_id, symbol, side, order_type, quantity, price, stop_price) ==
    [id |-> id, user_id |-> user_id, symbol |-> symbol, side |-> side,
     order_type |-> order_type, quantity |-> quantity, filled_quantity |-> 0,
     price |-> price, stop_price |-> stop_price, status |-> PENDING]

OrderBookEntry(price, total_quantity, order_count, ids) ==
    [price |-> price, total_quantity |-> total_quantity,
     order_count |-> order_count, orders |-> ids]

Trade(id, symbol, buy_order_id, sell_order_id, quantity, price) ==
    [id |-> id, symbol |-> symbol, buy_order_id |-> buy_order_id,
     sell_order_id |-> sell_order_id, quantity |-> quantity, price |-> price]

Min(a, b) == IF a <= b THEN a ELSE b

\* ------------------------------------------------------------------ heapq
\* Tuples compare lexicographically.
TupleLt(a, b) == a[1] < b[1] \/ (a[1] = b[1] /\ a[2] < b[2])

\* heapq._siftdown(heap, startpos, pos), positions 0-based as in the source.
RECURSIVE SiftDownLoop(_, _, _, _)
SiftDownLoop(heap, startpos, pos, newitem) ==
    IF pos > startpos
    THEN LET parentpos == (pos - 1) \div 2
             parent == heap[parentpos + 1]
         IN IF TupleLt(newitem, parent)
            THEN SiftDownLoop([heap EXCEPT ![pos + 1] = parent], startpos, parentpos, newitem)
            ELSE [heap EXCEPT ![pos + 1] = newitem]
    ELSE [heap EXCEPT ![pos + 1] = newitem]

siftdown(heap, startpos, pos) == SiftDownLoop(heap, startpos, pos, heap[pos + 1])

\* heapq._siftup(heap, pos): bubble the smaller child up to a leaf, then sift down.
RECURSIVE SiftUpLoop(_, _, _, _)
SiftUpLoop(heap, startpos, pos, newitem) ==
    LET endpos == Len(heap)
        childpos == 2 * pos + 1
        rightpos == childpos + 1
        c == IF rightpos < endpos /\ ~TupleLt(heap[childpos + 1], heap[rightpos + 1])
             THEN rightpos ELSE childpos
    IN IF childpos < endpos
       THEN SiftUpLoop([heap EXCEPT ![pos + 1] = heap[c + 1]], startpos, c, newitem)
       ELSE siftdown([heap EXCEPT ![pos + 1] = newitem], startpos, pos)

siftup(heap, pos) == SiftUpLoop(heap, pos, pos, heap[pos + 1])

heappush(heap, item) == siftdown(Append(heap, item), 0, Len(heap))

\* heapq.heappop(heap): <<smallest item, heap afterwards>>.
heappop(heap) ==
    LET lastelt == heap[Len(heap)]
        rest == SubSeq(heap, 1, Len(heap) - 1)
    IN IF rest = <<>>
       THEN <<lastelt, rest>>
       ELSE <<rest[1], siftup([rest EXCEPT ![1] = lastelt], 0)>>

\* heapq.heapify(x): for i in reversed(range(n // 2)): _siftup(x, i)
RECURSIVE HeapifyLoop(_, _)
HeapifyLoop(heap, i) ==
    IF i < 0 THEN heap ELSE HeapifyLoop(siftup(heap, i), i - 1)

heapify(heap) == HeapifyLoop(heap, (Len(heap) \div 2) - 1)

\* ------------------------------------------------------------ dict helpers
\* Position of key `price` in a dict kept as a sequence of entries; 0 when absent.
LevelIndex(levels, price) ==
    IF \E i \in 1..Len(levels) : levels[i].price = price
    THEN CHOOSE i \in 1..Len(levels) : levels[i].price = price
    ELSE 0

side_key_of(side) == IF side = BUY THEN "bids" ELSE "asks"

\* The engine's mutable state, threaded through the helpers.
State ==
    [orders |-> orders, next_trade_id |-> next_trade_id, order_books |-> order_books,
     price_levels |-> price_levels, trades |-> trades]

\* ------------------------------------------------- OrderBook private helpers
\* heap_price = -price if order.side == OrderSide.BUY else price
heap_price_of(side, price) == IF side = BUY THEN 0 - price ELSE price

\* A variant that queues the order at the head of an existing level
\* (entry.orders.insert(0, order)).
add_to_order_book_at_head(st, oid) ==
    LET order == st.orders[oid]
        sym == order.symbol
        sk == side_key_of(order.side)
        price == order.price
        levels == st.price_levels[sym][sk]
        i == LevelIndex(levels, price)
    IN IF i = 0
       THEN [st EXCEPT
               !.price_levels[sym][sk] =
                   Append(levels, OrderBookEntry(price, order.quantity, 1, <<oid>>)),
               !.order_books[sym][sk] =
                   heappush(@, <<heap_price_of(order.side, price), price>>)]
       ELSE [st EXCEPT
               !.price_levels[sym][sk][i] =
                   OrderBookEntry(@.price, @.total_quantity + order.quantity,
                                  @.order_count + 1, <<oid>> \o @.orders)]

\* OrderBook._add_to_order_book(order)
add_to_order_book(st, oid) ==
    LET order == st.orders[oid]
        sym == order.symbol
        sk == side_key_of(order.side)
        price == order.price
        levels == st.price_levels[sym][sk]
        i == LevelIndex(levels, price)
    IN IF i = 0
       THEN [st EXCEPT
               !.price_levels[sym][sk] =
                   Append(levels, OrderBookEntry(price, order.quantity, 1, <<oid>>)),
               !.order_books[sym][sk] =
                   heappush(@, <<heap_price_of(order.side, price), price>>)]
       ELSE [st EXCEPT
               !.price_levels[sym][sk][i] =
                   OrderBookEntry(@.price, @.total_quantity + order.quantity,
                                  @.order_count + 1, Append(@.orders, oid))]

\* A variant that never finds a level empty.
level_is_empty_never(entry) == FALSE

\* if entry.total_quantity <= 0 or entry.order_count <= 0
level_is_empty(entry) == entry.total_quantity <= 0 \/ entry.order_count <= 0

\* A variant that leaves the heap as it is.
heap_without_kept(heap, price) == heap

\* The heap rebuilt without the tuples of `price`, then heapify.
heap_without(heap, price) == heapify(SelectSeq(heap, LAMBDA t : t[2] # price))

\* OrderBook._remove_from_order_book(order)
remove_from_order_book(st, oid) ==
    LET order == st.orders[oid]
        sym == order.symbol
        sk == side_key_of(order.side)
        price == order.price
        levels == st.price_levels[sym][sk]
        i == LevelIndex(levels, price)
    IN IF i = 0 THEN st
       ELSE LET entry == OrderBookEntry(levels[i].price,
                                        levels[i].total_quantity - order.quantity,
                                        levels[i].order_count - 1,
                                        SelectSeq(levels[i].orders, LAMBDA o : o # oid))
            IN IF level_is_empty(entry)
               THEN [st EXCEPT
                       !.price_levels[sym][sk] =
                           SelectSeq(levels, LAMBDA e : e.price # price),
                       !.order_books[sym][sk] = heap_without(@, price)]
               ELSE [st EXCEPT !.price_levels[sym][sk][i] = entry]

\* list.sort(key=lambda x: x.price[, reverse=True]): stable in both directions.
RECURSIVE InsertByPrice(_, _, _, _)
InsertByPrice(sorted, oid, reg, reverse) ==
    IF sorted = <<>> THEN <<oid>>
    ELSE LET h == Head(sorted)
             before == IF reverse THEN reg[h].price < reg[oid].price
                                  ELSE reg[h].price > reg[oid].price
         IN IF before THEN <<oid>> \o sorted
            ELSE <<h>> \o InsertByPrice(Tail(sorted), oid, reg, reverse)

RECURSIVE SortLoop(_, _, _, _)
SortLoop(sorted, ids, reg, reverse) ==
    IF ids = <<>> THEN sorted
    ELSE SortLoop(InsertByPrice(sorted, Head(ids), reg, reverse), Tail(ids), reg, reverse)

\* A variant that leaves the list in dict order (the sort forgotten).
sort_by_price_skipped(ids, reg, reverse) == ids

sort_by_price(ids, reg, reverse) == SortLoop(<<>>, ids, reg, reverse)

\* order.status in [PENDING, PARTIAL] and order.order_type == LIMIT
is_live_limit(o) == o.status \in {PENDING, PARTIAL} /\ o.order_type = LIMIT

\* The orders of the levels `levels`, level after level in dict order, filtered.
RECURSIVE collect_orders(_, _)
collect_orders(levels, reg) ==
    IF levels = <<>> THEN <<>>
    ELSE SelectSeq(Head(levels).orders, LAMBDA o : is_live_limit(reg[o]))
         \o collect_orders(Tail(levels), reg)

\* The levels of one side key of every symbol in `symbols`, one symbol after another.
RECURSIVE levels_of_symbols(_, _, _)
levels_of_symbols(st, symbols, sk) ==
    IF symbols = {} THEN <<>>
    ELSE LET s == CHOOSE x \in symbols : TRUE
         IN st.price_levels[s][sk] \o levels_of_symbols(st, symbols \ {s}, sk)

\* A variant that gathers the resting orders of every symbol.
get_matching_orders_of_all_symbols(st, symbol, side) ==
    LET sk == IF side = SELL THEN "asks" ELSE "bids"
    IN sort_by_price(collect_orders(levels_of_symbols(st, AllSymbols, sk), st.orders),
                     st.orders, side # SELL)

\* A variant that reads only the first price level of the dict.
get_matching_orders_first_level(st, symbol, side) ==
    LET sk == IF side = SELL THEN "asks" ELSE "bids"
        levels == st.price_levels[symbol][sk]
    IN sort_by_price(collect_orders(SubSeq(levels, 1, Min(1, Len(levels))), st.orders),
                     st.orders, side # SELL)

\* OrderBook._get_matching_orders(symbol, side, quantity)
get_matching_orders(st, symbol, side) ==
    LET sk == IF side = SELL THEN "asks" ELSE "bids"
    IN sort_by_price(collect_orders(st.price_levels[symbol][sk], st.orders),
                     st.orders, side # SELL)

\* A variant with the two comparisons swapped between the sides.
level_skipped_swapped(order_side, level_price, price) ==
    IF order_side = BUY THEN level_price < price ELSE level_price > price

\* The price condition of _get_matching_orders_with_price: TRUE when the level is skipped.
level_skipped(order_side, level_price, price) ==
    IF order_side = BUY THEN level_price > price ELSE level_price < price

\* OrderBook._get_matching_orders_with_price(symbol, side, quantity, price, order_side)
get_matching_orders_with_price(st, symbol, side, price, order_side) ==
    LET sk == IF side = SELL THEN "asks" ELSE "bids"
        kept == SelectSeq(st.price_levels[symbol][sk],
                          LAMBDA e : ~level_skipped(order_side, e.price, price))
    IN sort_by_price(collect_orders(kept, st.orders), st.orders, side # SELL)

\* Comparing a level price with price = None raises TypeError: it happens as soon
\* as the opposite side holds one level.
match_raises(st, oid) ==
    LET order == st.orders[oid]
        sk == IF order.side = BUY THEN "asks" ELSE "bids"
    IN /\ order.status = PENDING
       /\ order.order_type # MARKET
       /\ order.price = NoPrice
       /\ st.price_levels[order.symbol][sk] # <<>>

\* A variant that trades the whole remainder whatever the maker has left.
trade_quantity_uncapped(remaining_quantity, available_quantity) == remaining_quantity

trade_quantity(remaining_quantity, available_quantity) ==
    Min(remaining_quantity, available_quantity)

\* A variant that prints the trade at the incoming order's own price.
trade_price_of_taker(order, matching_order) == order.price

trade_price(order, matching_order) == matching_order.price

\* A variant that drops the trade instead of logging it.
record_trade_dropped(log, trade) == log

\* self.trades[order.symbol].append(trade)
record_trade(log, trade) == Append(log, trade)

\* A variant that asks for more than the whole quantity before it says FILLED.
status_after_fill_strict(filled_quantity, quantity) ==
    IF filled_quantity > quantity THEN FILLED ELSE PARTIAL

\* "Update order statuses": FILLED once filled_quantity >= quantity, else PARTIAL.
status_after_fill(filled_quantity, quantity) ==
    IF filled_quantity >= quantity THEN FILLED ELSE PARTIAL

\* The Trade object of one loop iteration of _match_order (lines 276-295): its
\* quantity, its price, its two order ids, and its id read off next_trade_id.
new_trade(st, oid, mid, remaining_quantity) ==
    LET order == st.orders[oid]
        matching_order == st.orders[mid]
        available_quantity == matching_order.quantity - matching_order.filled_quantity
    IN Trade(st.next_trade_id, order.symbol,
             IF order.side = BUY THEN oid ELSE mid,
             IF order.side = BUY THEN mid ELSE oid,
             trade_quantity(remaining_quantity, available_quantity),
             trade_price(order, matching_order))

\* The rest of the iteration (lines 296-319): the counter moves on, the trade is
\* logged, both orders take the fill and their new status, a filled maker leaves.
commit_trade(st, oid, mid, trade) ==
    LET st1 == [st EXCEPT !.next_trade_id = @ + 1,
                          !.trades[trade.symbol] = record_trade(@, trade),
                          !.orders[oid].filled_quantity = @ + trade.quantity,
                          !.orders[mid].filled_quantity = @ + trade.quantity]
        st2 == [st1 EXCEPT !.orders[oid].status =
                   status_after_fill(st1.orders[oid].filled_quantity,
                                     st1.orders[oid].quantity)]
        st3 == [st2 EXCEPT !.orders[mid].status =
                   status_after_fill(st2.orders[mid].filled_quantity,
                                     st2.orders[mid].quantity)]
    IN IF st3.orders[mid].status = FILLED /\ st3.orders[mid].order_type = LIMIT
       THEN remove_from_order_book(st3, mid)
       ELSE st3

\* One iteration of the "Execute trades" loop of _match_order.
execute_trade(st, oid, mid, remaining_quantity) ==
    commit_trade(st, oid, mid, new_trade(st, oid, mid, remaining_quantity))

RECURSIVE execute_trades(_, _, _, _)
execute_trades(st, oid, matching_orders, remaining_quantity) ==
    IF matching_orders = <<>> \/ remaining_quantity <= 0 THEN st
    ELSE LET mid == Head(matching_orders)
             avail == st.orders[mid].quantity - st.orders[mid].filled_quantity
         IN execute_trades(execute_trade(st, oid, mid, remaining_quantity), oid,
                           Tail(matching_orders),
                           remaining_quantity - trade_quantity(remaining_quantity, avail))

\* OrderBook._match_order(order), when it does not raise.
match_order(st, oid) ==
    LET order == st.orders[oid]
        opposite_side == IF order.side = BUY THEN SELL ELSE BUY
        matching_orders ==
            IF order.order_type = MARKET
            THEN get_matching_orders(st, order.symbol, opposite_side)
            ELSE get_matching_orders_with_price(st, order.symbol, opposite_side,
                                                order.price, order.side)
    IN IF order.status # PENDING THEN st
       ELSE execute_trades(st, oid, matching_orders, order.quantity)

\* ---------------------------------------------------- OrderBook public API
\* What the last call was and how it ended: "ok" or the exception it raised.
Outcome(op, outcome) == [op |-> op, outcome |-> outcome]

\* OrderBook.add_order(user_id, symbol, side, order_type, quantity, price, stop_price)
add_order(user_id, symbol, side, order_type, quantity, price, stop_price) ==
    LET oid == next_order_id
        order == Order(oid, user_id, symbol, side, order_type, quantity, price, stop_price)
        st0 == [State EXCEPT !.orders = Append(@, order)]
        st1 == IF order_type = LIMIT /\ price # NoPrice
               THEN add_to_order_book(st0, oid) ELSE st0
        raises == match_raises(st1, oid)
        st2 == IF raises THEN st1 ELSE match_order(st1, oid)
    IN /\ next_order_id <= MaxOrders
       /\ next_order_id' = next_order_id + 1
       /\ orders' = st2.orders
       /\ next_trade_id' = st2.next_trade_id
       /\ order_books' = st2.order_books
       /\ price_levels' = st2.price_levels
       /\ trades' = st2.trades
       /\ result' = Outcome("add_order", IF raises THEN "TypeError" ELSE "ok")

\* A variant that refuses only FILLED orders.
cancel_refused_filled_only(order) == order.status = FILLED

\* if order.status in [OrderStatus.FILLED, OrderStatus.CANCELLED]
cancel_refused(order) == order.status \in {FILLED, CANCELLED}

\* A variant that leaves the cancelled order where it is queued.
cancel_removes_never(order) == FALSE

\* if order.order_type == OrderType.LIMIT and order.price
cancel_removes(order) == order.order_type = LIMIT /\ order.price # NoPrice

\* OrderBook.cancel_order(order_id, user_id)
cancel_order(order_id, user_id) ==
    IF order_id \notin DOMAIN orders
    THEN /\ result' = Outcome("cancel_order", "Order not found")
         /\ UNCHANGED <<orders, next_order_id, next_trade_id, order_books, price_levels, trades>>
    ELSE IF orders[order_id].user_id # user_id
    THEN /\ result' = Outcome("cancel_order", "Order does not belong to user")
         /\ UNCHANGED <<orders, next_order_id, next_trade_id, order_books, price_levels, trades>>
    ELSE IF cancel_refused(orders[order_id])
    THEN /\ result' = Outcome("cancel_order", "Cannot cancel order")
         /\ UNCHANGED <<orders, next_order_id, next_trade_id, order_books, price_levels, trades>>
    ELSE LET st0 == [State EXCEPT !.orders[order_id].status = CANCELLED]
             order == st0.orders[order_id]
             st1 == IF cancel_removes(order)
                    THEN remove_from_order_book(st0, order_id) ELSE st0
         IN /\ orders' = st1.orders
            /\ order_books' = st1.order_books
            /\ price_levels' = st1.price_levels
            /\ result' = Outcome("cancel_order", "ok")
            /\ UNCHANGED <<next_order_id, next_trade_id, trades>>

\* A variant that reads the heap's list front to back instead of popping it.
RECURSIVE book_rows_in_list_order(_, _, _, _)
book_rows_in_list_order(heap, levels, n, side) ==
    IF n = 0 \/ heap = <<>> THEN <<>>
    ELSE LET price == IF side = BUY THEN 0 - heap[1][1] ELSE heap[1][1]
             i == LevelIndex(levels, price)
         IN (IF i = 0 THEN <<>>
             ELSE <<[price |-> levels[i].price,
                     total_quantity |-> levels[i].total_quantity,
                     order_count |-> levels[i].order_count]>>)
            \o book_rows_in_list_order(Tail(heap), levels, n - 1, side)

\* The rows get_order_book reads off a copy of one side's heap.
RECURSIVE book_rows(_, _, _, _)
book_rows(heap, levels, n, side) ==
    IF n = 0 \/ heap = <<>> THEN <<>>
    ELSE LET popped == heappop(heap)
             price == IF side = BUY THEN 0 - popped[1][1] ELSE popped[1][1]
             i == LevelIndex(levels, price)
         IN (IF i = 0 THEN <<>>
             ELSE <<[price |-> levels[i].price,
                     total_quantity |-> levels[i].total_quantity,
                     order_count |-> levels[i].order_count]>>)
            \o book_rows(popped[2], levels, n - 1, side)

\* OrderBook.get_order_book(symbol, depth), without the timestamp.
get_order_book(symbol, depth) ==
    [symbol |-> symbol,
     bids |-> book_rows(order_books[symbol]["bids"], price_levels[symbol]["bids"],
                        Min(depth, Len(order_books[symbol]["bids"])), BUY),
     asks |-> book_rows(order_books[symbol]["asks"], price_levels[symbol]["asks"],
                        Min(depth, Len(order_books[symbol]["asks"])), SELL)]

\* ------------------------------------------------------------- the machine
\* OrderBook.__init__
InitOrderBook ==
    /\ orders = <<>>
    /\ next_order_id = 1
    /\ next_trade_id = 1
    /\ order_books = [s \in AllSymbols |-> [k \in {"bids", "asks"} |-> <<>>]]
    /\ price_levels = [s \in AllSymbols |-> [k \in {"bids", "asks"} |-> <<>>]]
    /\ trades = [s \in AllSymbols |-> <<>>]
    /\ result = Outcome("init", "ok")

\* No batch under way.
NoRoundTrip == [phase |-> "prepare", price_levels |-> <<>>, views |-> <<>>, batch |-> {}]

Threads == {1, 2}

\* A thread outside add_order.
IdleThread ==
    [pc |-> "idle", order |-> <<>>, matching_orders |-> <<>>,
     remaining_quantity |-> 0, trade |-> <<>>]

Clients == {1, 2}

\* Nothing read yet.
NoReading == [op |-> "none", symbol |-> "", arg |-> 0, rows |-> <<>>]

\* No request yet.
NoResponse == [op |-> "none", request |-> <<>>, outcome |-> "none", order |-> <<>>]

\* A client outside add_order.
IdleClient == [pc |-> "idle", order |-> <<>>, remaining |-> 0]

\* A client that has not called cancel_order yet.
IdleCanceller ==
    [pc |-> "idle", order_id |-> 0, user_id |-> 0, present |-> FALSE, data |-> <<>>,
     outcome |-> ""]

\* The store after _init_counters on an empty server.
EmptyStore ==
    [counters |-> [order_id |-> 0, trade_id |-> 0],
     hashes |-> <<>>,
     user_orders |-> [u \in Submitters |-> {}],
     symbol_orders |-> [s \in Symbols |-> {}],
     lists |-> <<>>,
     meta |-> <<>>,
     zsets |-> [k \in Symbols \X {"bids", "asks"} |-> {}],
     streams |-> [s \in Symbols |-> <<>>]]

Init ==
    /\ InitOrderBook
    /\ round_trip = NoRoundTrip
    /\ threads = [t \in Threads |-> IdleThread]
    /\ redis = EmptyStore
    /\ clients = [c \in Clients |-> IdleClient]
    /\ published = <<>>
    /\ response = NoResponse
    /\ canceller = IdleCanceller
    /\ clock = 0
    /\ executed_at = [s \in Symbols |-> <<>>]
    /\ reading = NoReading
    /\ active_connections = <<>>
    /\ total_connections = 0
    /\ stats = NoStats
    /\ sockets = [w \in Sockets |-> NewSocket]
    /\ broadcast = IdleBroadcast

\* stop_price is stored and never read by OrderBook.
StopPrices == {1}

\* An order without a price never reads its quantity: no level holds it and
\* matching finds it nothing (or raises), so one quantity stands for all.
QuantitiesFor(price) == IF price = NoPrice THEN {1} ELSE Quantities

AddLimit ==
    \E u \in Submitters, s \in Symbols, sd \in OrderSide, p \in Prices \cup {NoPrice} :
        \E q \in QuantitiesFor(p) :
            add_order(u, s, sd, LIMIT, q, p, NoPrice) /\ UNCHANGED bystanders

AddMarket ==
    \E u \in Submitters, s \in Symbols, sd \in OrderSide, q \in Quantities :
        add_order(u, s, sd, MARKET, q, NoPrice, NoPrice) /\ UNCHANGED bystanders

AddStop ==
    \E u \in Submitters, s \in Symbols, sd \in OrderSide, p \in Prices \cup {NoPrice} :
        \E q \in QuantitiesFor(p), sp \in StopPrices :
            add_order(u, s, sd, STOP, q, p, sp) /\ UNCHANGED bystanders

Cancel ==
    \E oid \in 1..(MaxOrders + 1), u \in Requesters :
        cancel_order(oid, u) /\ UNCHANGED bystanders

Next == AddLimit \/ AddMarket \/ AddStop \/ Cancel

Spec == Init /\ [][Next]_vars

\* ------------------------------------------------------- reading the state
Max(a, b) == IF a >= b THEN a ELSE b

SideKeys == {"bids", "asks"}

\* Status PENDING or PARTIAL.
Live(o) == o.status \in {PENDING, PARTIAL}

\* The order ids queued in some price level of (symbol, side key).
Queued(symbol, sk) ==
    UNION {{price_levels[symbol][sk][i].orders[j] :
               j \in 1..Len(price_levels[symbol][sk][i].orders)} :
           i \in 1..Len(price_levels[symbol][sk])}

QueuedAnywhere == UNION {Queued(s, k) : s \in Symbols, k \in SideKeys}

\* A resting order: live and queued in a price level.
Resting(id) == id \in QueuedAnywhere /\ Live(orders[id])

Opposite(side) == IF side = BUY THEN SELL ELSE BUY

RECURSIVE SumOver(_, _)
SumOver(S, f) ==
    IF S = {} THEN 0
    ELSE LET x == CHOOSE y \in S : TRUE IN f[x] + SumOver(S \ {x}, f)

Remaining(o) == o.quantity - o.filled_quantity

\* The live quantity resting on `side` of `symbol`.
Liquidity(symbol, side) ==
    LET ids == {id \in Queued(symbol, side_key_of(side)) : Live(orders[id])}
    IN SumOver(ids, [id \in ids |-> Remaining(orders[id])])

\* A step that is one add_order call; the order it admits has id next_order_id.
IsAddStep == next_order_id' = next_order_id + 1

\* The trades a step appends to the log of `symbol`.
NewTrades(symbol) == SubSeq(trades'[symbol], Len(trades[symbol]) + 1, Len(trades'[symbol]))

\* Ids grow with admission: of a trade's two orders the older is the maker.
MakerId(t) == Min(t.buy_order_id, t.sell_order_id)
TakerId(t) == Max(t.buy_order_id, t.sell_order_id)

AllTrades == UNION {{trades[s][i] : i \in 1..Len(trades[s])} : s \in Symbols}

\* ------------------------------------- a batch submitted and cancelled again
\* The depths get_order_book is asked for: none, some, more than there are levels.
Depths == 0..(MaxPrice + 1)

\* What get_order_book returns for every symbol at every depth.
BookViews == [s \in Symbols |-> [d \in Depths |-> get_order_book(s, d)]]

\* An incoming LIMIT order of `side` at `price` crosses: a live resting order
\* of the opposite side is priced within its limit.
Crosses(symbol, side, price) ==
    \E id \in Queued(symbol, side_key_of(Opposite(side))) :
        /\ Live(orders[id])
        /\ IF side = BUY THEN orders[id].price <= price ELSE orders[id].price >= price

\* Before the batch: any calls at all bring the book to some state.
RoundTripPrepare ==
    /\ round_trip.phase = "prepare"
    /\ Next

\* The caller notes the book as it is and starts its batch.
RoundTripBegin ==
    /\ round_trip.phase = "prepare"
    /\ next_order_id <= MaxOrders
    /\ round_trip' = [phase |-> "submit", price_levels |-> price_levels,
                      views |-> BookViews, batch |-> {}]
    /\ UNCHANGED <<vars, threads, store_side, outer>>

\* One more LIMIT order that crosses nothing, at a price the batch has not used.
RoundTripSubmit ==
    /\ round_trip.phase = "submit"
    /\ \E u \in Submitters, s \in Symbols, sd \in OrderSide, p \in Prices, q \in Quantities :
          /\ ~Crosses(s, sd, p)
          /\ \A id \in round_trip.batch : orders[id].price # p
          /\ add_order(u, s, sd, LIMIT, q, p, NoPrice)
    /\ round_trip' = [round_trip EXCEPT !.batch = @ \cup {next_order_id}]
    /\ UNCHANGED <<threads, store_side, outer>>

\* The owner cancels one order of the batch that it has not cancelled yet.
RoundTripCancel ==
    /\ round_trip.phase \in {"submit", "cancel"}
    /\ \E id \in round_trip.batch :
          /\ orders[id].status # CANCELLED
          /\ cancel_order(id, orders[id].user_id)
    /\ round_trip' = [round_trip EXCEPT !.phase = "cancel"]
    /\ UNCHANGED <<threads, store_side, outer>>

NextRoundTrip == RoundTripPrepare \/ RoundTripBegin \/ RoundTripSubmit \/ RoundTripCancel

SpecRoundTrip == Init /\ [][NextRoundTrip]_<<vars, bystanders>>

\* The batch has been cancelled to the last order.
RoundTripDone ==
    /\ round_trip.phase = "cancel"
    /\ \A id \in round_trip.batch : orders[id].status = CANCELLED

\* --------------------------------------- add_order called by several threads
\* OrderBook has no lock.  A thread runs add_order in steps that end where the
\* code reads or writes what another thread may write: the read of
\* next_order_id inside Order(...), the increment with the registration, the
\* gathering of the matching orders, and per trade the read of next_trade_id
\* inside Trade(...) and the increment with the rest of the loop body.  The
\* model reaches an order through the registry, as it does everywhere: once two
\* orders carry one id the registry holds the later of them only.

\* What the threads submit: LIMIT orders at one price, and MARKET orders.
ThreadOrders == {<<LIMIT, 1>>, <<MARKET, NoPrice>>}

\* self.orders[order.id] = order
store_order(reg, order) ==
    [id \in DOMAIN reg \cup {order.id} |-> IF id = order.id THEN order ELSE reg[id]]

\* Lines 93-102: the Order object is built, its id read off next_order_id.
thread_create_order(t) ==
    /\ threads[t].pc = "idle"
    /\ next_order_id <= MaxOrders
    /\ \E u \in Submitters, s \in Symbols, sd \in OrderSide, q \in Quantities,
          tp \in ThreadOrders :
          threads' = [threads EXCEPT ![t] =
              [IdleThread EXCEPT !.pc = "created",
                                 !.order = Order(next_order_id, u, s, sd, tp[1], q,
                                                 tp[2], NoPrice)]]
    /\ UNCHANGED <<vars, round_trip, store_side, outer>>

\* Lines 104-109: the counter moves on, the order is registered and, a LIMIT
\* order with a price, queued.
thread_register_order(t) ==
    LET order == threads[t].order
        st0 == [State EXCEPT !.orders = store_order(@, order)]
        st1 == IF order.order_type = LIMIT /\ order.price # NoPrice
               THEN add_to_order_book(st0, order.id) ELSE st0
    IN /\ threads[t].pc = "created"
       /\ next_order_id' = next_order_id + 1
       /\ orders' = st1.orders
       /\ order_books' = st1.order_books
       /\ price_levels' = st1.price_levels
       /\ threads' = [threads EXCEPT ![t].pc = "registered"]
       /\ UNCHANGED <<next_trade_id, trades, result, round_trip, store_side, outer>>

\* Lines 255-269: _match_order returns at once for an order no longer PENDING,
\* else gathers the matching orders.
thread_begin_match(t) ==
    LET oid == threads[t].order.id
        order == orders[oid]
        opposite_side == IF order.side = BUY THEN SELL ELSE BUY
        matching_orders ==
            IF order.order_type = MARKET
            THEN get_matching_orders(State, order.symbol, opposite_side)
            ELSE get_matching_orders_with_price(State, order.symbol, opposite_side,
                                                order.price, order.side)
    IN /\ threads[t].pc = "registered"
       /\ IF order.status # PENDING
          THEN /\ threads' = [threads EXCEPT ![t] = IdleThread]
               /\ result' = Outcome("add_order", "ok")
          ELSE /\ threads' = [threads EXCEPT ![t].pc = "matching",
                                             ![t].matching_orders = matching_orders,
                                             ![t].remaining_quantity = order.quantity]
               /\ UNCHANGED result
       /\ UNCHANGED <<orders, next_order_id, next_trade_id, order_books, price_levels,
                      trades, round_trip, store_side, outer>>

\* Lines 272-295: the loop ends (and add_order returns) or builds the next
\* Trade object, its id read off next_trade_id.
thread_next_trade(t) ==
    LET th == threads[t] IN
    /\ th.pc = "matching"
    /\ IF th.matching_orders = <<>> \/ th.remaining_quantity <= 0
       THEN /\ threads' = [threads EXCEPT ![t] = IdleThread]
            /\ result' = Outcome("add_order", "ok")
       ELSE /\ threads' = [threads EXCEPT
                   ![t].pc = "trading",
                   ![t].trade = new_trade(State, th.order.id, Head(th.matching_orders),
                                          th.remaining_quantity)]
            /\ UNCHANGED result
    /\ UNCHANGED <<orders, next_order_id, next_trade_id, order_books, price_levels,
                   trades, round_trip, store_side, outer>>

\* Lines 296-319: the counter moves on, the trade is logged, the fills and the
\* statuses are written.
thread_commit_trade(t) ==
    LET th == threads[t]
        st1 == commit_trade(State, th.order.id, Head(th.matching_orders), th.trade)
    IN /\ th.pc = "trading"
       /\ orders' = st1.orders
       /\ next_trade_id' = st1.next_trade_id
       /\ order_books' = st1.order_books
       /\ price_levels' = st1.price_levels
       /\ trades' = st1.trades
       /\ threads' = [threads EXCEPT
              ![t].pc = "matching",
              ![t].matching_orders = Tail(@),
              ![t].remaining_quantity = @ - th.trade.quantity,
              ![t].trade = <<>>]
       /\ UNCHANGED <<next_order_id, result, round_trip, store_side, outer>>

NextThreads ==
    \E t \in Threads :
        \/ thread_create_order(t)
        \/ thread_register_order(t)
        \/ thread_begin_match(t)
        \/ thread_next_trade(t)
        \/ thread_commit_trade(t)

SpecThreads == Init /\ [][NextThreads]_<<vars, bystanders>>

\* The threads that hold an Order object not yet registered.
Creating == {t \in Threads : threads[t].pc = "created"}

\* The threads that hold a Trade object not yet logged.
Trading == {t \in Threads : threads[t].pc = "trading"}

\* ------------------------------------------------------------ RedisOrderBook
\* A price or a quantity of the store-backed book is a whole number of 10^-8:
\* the float 1.0 is Scale, 1.00000001 is Scale + 1.  The server keeps text; a
\* numeral is the integer part and the digits after the point (no digits: no
\* point, the text of an integer).
DecimalPlaces == 8
Scale == 100000000

Numeral(int, frac) == [int |-> int, frac |-> frac]

\* The k digits of n, most significant first.
RECURSIVE Digits(_, _)
Digits(n, k) == IF k = 0 THEN <<>> ELSE Append(Digits(n \div 10, k - 1), n % 10)

\* Trailing zeros dropped, one digit kept.
RECURSIVE StripZeros(_)
StripZeros(ds) ==
    IF Len(ds) > 1 /\ ds[Len(ds)] = 0 THEN StripZeros(SubSeq(ds, 1, Len(ds) - 1)) ELSE ds

\* repr(x) of a Python float, which is also str(x): "1.0", "1.00000001", "0.5".
float_repr(x) == Numeral(x \div Scale, StripZeros(Digits(x % Scale, DecimalPlaces)))

\* str(n) of an integer.
int_repr(n) == Numeral(n, <<>>)

\* "%.17g" of a Lua number, the text a script passes to a command: "1", "0.5".
lua_number_repr(x) == IF x % Scale = 0 THEN int_repr(x \div Scale) ELSE float_repr(x)

\* RedisOrderBook._normalize_price(price): eight decimal places, always.
normalize_price(price) == Numeral(price \div Scale, Digits(price % Scale, DecimalPlaces))

\* The digits ds read as a fraction, in units of 10^-k ... 10^-1 from the right.
RECURSIVE FracValue(_, _)
FracValue(ds, unit) ==
    IF ds = <<>> THEN 0 ELSE Head(ds) * (unit \div 10) + FracValue(Tail(ds), unit \div 10)

\* Lua's tonumber(text).
tonumber(numeral) == numeral.int * Scale + FracValue(numeral.frac, Scale)

\* A dict or a keyspace as a function: set a key, delete a key, read with a default.
Put(f, k, v) == [x \in DOMAIN f \cup {k} |-> IF x = k THEN v ELSE f[x]]
Drop(f, k) == [x \in DOMAIN f \ {k} |-> f[x]]
Get(f, k, default) == IF k \in DOMAIN f THEN f[k] ELSE default

\* RedisOrderBook._get_price_key(symbol, side, price)
get_price_key(symbol, side, price) == <<symbol, side_key_of(side), normalize_price(price)>>

\* RedisOrderBook._get_order_book_key(symbol, side)
get_order_book_key(symbol, side) == <<symbol, side_key_of(side)>>

\* Order.to_dict() as redis-py writes it: every value becomes text (an int by
\* str, a float by repr), None values are left out.
to_dict(order) ==
    LET data == [id |-> int_repr(order.id), user_id |-> int_repr(order.user_id),
                 symbol |-> order.symbol, side |-> order.side,
                 order_type |-> order.order_type,
                 quantity |-> float_repr(order.quantity),
                 filled_quantity |-> float_repr(order.filled_quantity),
                 status |-> order.status]
        priced == IF order.price = NoPrice THEN data
                  ELSE Put(data, "price", float_repr(order.price))
    IN IF order.stop_price = NoPrice THEN priced
       ELSE Put(priced, "stop_price", float_repr(order.stop_price))

\* A variant that enqueues and leaves the level's metadata as it was.
add_to_order_book_pipeline_uncounted(store, order) ==
    LET price_key == get_price_key(order.symbol, order.side, order.price)
        order_book_key == get_order_book_key(order.symbol, order.side)
        member == float_repr(order.price)
        score == IF order.side = BUY THEN 0 - order.price ELSE order.price
        meta == Get(store.meta, price_key, [total_quantity |-> 0, order_count |-> 1])
    IN [store EXCEPT
           !.lists = Put(@, price_key, <<order.id>> \o Get(@, price_key, <<>>)),
           !.zsets[order_book_key] =
               {e \in @ : e.member # member} \cup {[member |-> member, score |-> score]},
           !.meta = Put(@, price_key, meta)]

\* RedisOrderBook._add_to_order_book_pipeline(pipe, order): LPUSH, ZADD, HINCRBY twice.
add_to_order_book_pipeline(store, order) ==
    LET price_key == get_price_key(order.symbol, order.side, order.price)
        order_book_key == get_order_book_key(order.symbol, order.side)
        member == float_repr(order.price)
        score == IF order.side = BUY THEN 0 - order.price ELSE order.price
        meta == Get(store.meta, price_key, [total_quantity |-> 0, order_count |-> 0])
    IN [store EXCEPT
           !.lists = Put(@, price_key, <<order.id>> \o Get(@, price_key, <<>>)),
           !.zsets[order_book_key] =
               {e \in @ : e.member # member} \cup {[member |-> member, score |-> score]},
           !.meta = Put(@, price_key,
                        [total_quantity |-> meta.total_quantity + order.quantity,
                         order_count |-> meta.order_count + 1])]

\* The pipeline of add_order (lines 200-217), executed as one transaction.
execute_pipeline(store, order) ==
    LET stored == [store EXCEPT
                      !.hashes = Put(@, order.id, to_dict(order)),
                      !.user_orders[order.user_id] = @ \cup {order.id},
                      !.symbol_orders[order.symbol] = @ \cup {order.id}]
    IN IF order.order_type = LIMIT /\ order.price # NoPrice
       THEN add_to_order_book_pipeline(stored, order)
       ELSE stored

\* ZRANGE key 0 -1: the members by ascending score.
RECURSIVE zrange(_)
zrange(zset) ==
    IF zset = {} THEN <<>>
    ELSE LET e == CHOOSE x \in zset : \A y \in zset : x.score <= y.score
         IN <<e.member>> \o zrange(zset \ {e})

\* ZREVRANGE key 0 -1: the members by descending score.
RECURSIVE zrevrange(_)
zrevrange(zset) ==
    IF zset = {} THEN <<>>
    ELSE LET e == CHOOSE x \in zset : \A y \in zset : x.score >= y.score
         IN <<e.member>> \o zrevrange(zset \ {e})

\* The script's price condition (lines 451-457): TRUE where the level loop breaks.
script_breaks(argv, level_price) ==
    /\ argv.order_type = LIMIT
    /\ \/ argv.side = BUY /\ tonumber(level_price) > argv.price
       \/ argv.side = SELL /\ tonumber(level_price) < argv.price

\* The key the script reads a level's ids from (line 459): the symbol, the
\* opposite side and the sorted-set member as it is.
script_price_key(symbol, side_key, member) == <<symbol, side_key, member>>

\* The levels the loop visits, each with the ids LRANGE reads from the key the
\* script builds out of the sorted-set member (line 459).
RECURSIVE script_candidates(_, _, _, _)
script_candidates(store, argv, opposite_side, levels) ==
    IF levels = <<>> \/ script_breaks(argv, Head(levels)) THEN <<>>
    ELSE LET price_key == script_price_key(argv.symbol, opposite_side, Head(levels))
             order_ids == Get(store.lists, price_key, <<>>)
         IN [i \in 1..Len(order_ids) |->
                [level_price |-> Head(levels), price_key |-> price_key,
                 id |-> order_ids[i]]]
            \o script_candidates(store, argv, opposite_side, Tail(levels))

\* HINCRBY key field increment succeeds when the stored text and the increment
\* are both integers ("hash value is not an integer" otherwise).
hincrby_raises(stored, increment) == stored.frac # <<>> \/ increment.frac # <<>>

hincrby(stored, increment) == int_repr(stored.int + increment.int)

\* LREM key 0 id; an emptied list is no key any more.
lrem(lists, key, id) ==
    LET left == SelectSeq(Get(lists, key, <<>>), LAMBDA x : x # id)
    IN IF left = <<>> THEN Drop(lists, key) ELSE Put(lists, key, left)

\* 'filled' once filled_quantity >= quantity, else 'partial' (lines 510-526).
script_status(hash) ==
    IF tonumber(hash.filled_quantity) >= tonumber(hash.quantity) THEN FILLED ELSE PARTIAL

\* The body of the script's inner loop for one resting order id (lines 463-529).
\* A command that raises ends the script; what it wrote before stays written.
script_trade(run, argv, cand) ==
    IF run.failed \/ run.remaining_quantity <= 0 THEN run
    ELSE IF cand.id \notin DOMAIN run.store.hashes THEN run
    ELSE IF run.store.hashes[cand.id].status \notin {PENDING, PARTIAL} THEN run
    ELSE LET maker == run.store.hashes[cand.id]
             available_quantity == tonumber(maker.quantity) - tonumber(maker.filled_quantity)
             trade_quantity_ == Min(run.remaining_quantity, available_quantity)
             increment == lua_number_repr(trade_quantity_)
             trade_id == run.store.counters.trade_id + 1
             entry == [id |-> trade_id, symbol |-> argv.symbol,
                       buy_order_id |-> IF argv.side = BUY THEN argv.order_id ELSE cand.id,
                       sell_order_id |-> IF argv.side = SELL THEN argv.order_id ELSE cand.id,
                       quantity |-> increment, price |-> cand.level_price]
             logged == [run.store EXCEPT !.counters.trade_id = trade_id,
                                         !.streams[argv.symbol] = Append(@, entry)]
         IN IF hincrby_raises(logged.hashes[argv.order_id].filled_quantity, increment)
            THEN [run EXCEPT !.store = logged, !.failed = TRUE]
            ELSE LET taken == [logged EXCEPT !.hashes[argv.order_id].filled_quantity =
                                                  hincrby(@, increment)]
                 IN IF hincrby_raises(taken.hashes[cand.id].filled_quantity, increment)
                    THEN [run EXCEPT !.store = taken, !.failed = TRUE]
                    ELSE LET given == [taken EXCEPT !.hashes[cand.id].filled_quantity =
                                                        hincrby(@, increment)]
                             judged == [given EXCEPT
                                 !.hashes[argv.order_id].status =
                                     script_status(given.hashes[argv.order_id]),
                                 !.hashes[cand.id].status =
                                     script_status(given.hashes[cand.id])]
                             cleaned == IF judged.hashes[cand.id].status = FILLED
                                        THEN [judged EXCEPT !.lists =
                                                 lrem(@, cand.price_key, cand.id)]
                                        ELSE judged
                         IN [run EXCEPT !.store = cleaned,
                                        !.remaining_quantity = @ - trade_quantity_]

RECURSIVE script_loop(_, _, _)
script_loop(run, argv, candidates) ==
    IF candidates = <<>> THEN run
    ELSE script_loop(script_trade(run, argv, Head(candidates)), argv, Tail(candidates))

\* The arguments _match_order hands to EVAL (lines 537-539).
script_argv(order) ==
    [order_id |-> order.id, symbol |-> order.symbol, side |-> order.side,
     quantity |-> order.quantity, price |-> order.price, order_type |-> order.order_type]

\* The Lua script of _match_order, run as one command: the store it leaves,
\* whether it raised, and the remaining quantity it would return.
matching_script(store, argv) ==
    LET opposite_side == IF argv.side = SELL THEN "bids" ELSE "asks"
        zset == store.zsets[<<argv.symbol, opposite_side>>]
        price_levels_ == IF argv.side = BUY THEN zrange(zset) ELSE zrevrange(zset)
    IN script_loop([store |-> store, remaining_quantity |-> argv.quantity, failed |-> FALSE],
                   argv, script_candidates(store, argv, opposite_side, price_levels_))

\* A Lua number in a reply is cut to an integer: the whole units of it.
lua_to_integer(x) == x \div Scale

\* A variant that writes the hash and leaves the caller's copy as it was.
write_back_store_only(store, order, remaining) ==
    IF remaining > 0
    THEN [store |-> [store EXCEPT !.hashes =
                        Put(@, order.id, to_dict([order EXCEPT !.status = FILLED]))],
          order |-> order]
    ELSE [store |-> store, order |-> order]

\* Lines 542-545: with result[0] > 0 the client recomputes filled_quantity and
\* status on its own copy and writes the whole copy back.
write_back(store, order, remaining) ==
    IF remaining > 0
    THEN LET filled == order.quantity - remaining * Scale
             mine == [order EXCEPT !.filled_quantity = filled,
                                   !.status = IF filled > 0 THEN PARTIAL ELSE FILLED]
         IN [store |-> [store EXCEPT !.hashes = Put(@, order.id, to_dict(mine))],
             order |-> mine]
    ELSE [store |-> store, order |-> order]

\* The three commands of the except branch (lines 229-232).
rollback_hash(store, order) == [store EXCEPT !.hashes = Drop(@, order.id)]
rollback_user(store, order) == [store EXCEPT !.user_orders[order.user_id] = @ \ {order.id}]
rollback_symbol(store, order) == [store EXCEPT !.symbol_orders[order.symbol] = @ \ {order.id}]

\* The message _publish_order_update builds (lines 549-558), without its
\* timestamp, under the channel order_updates:<symbol> it goes to.
order_update(order) ==
    [channel |-> order.symbol, order_id |-> order.id, symbol |-> order.symbol,
     side |-> order.side, status |-> order.status, quantity |-> order.quantity,
     filled_quantity |-> order.filled_quantity, price |-> order.price]

\* A variant that publishes nothing.
publish_order_update_skipped(log, order) == log

\* RedisOrderBook._publish_order_update(order): PUBLISH (line 560).
publish_order_update(log, order) == Append(log, order_update(order))

\* What the clients submit: LIMIT orders at 1.0 and at 1.00000001, and MARKET
\* orders, of quantity 0.5 or 1.0.
ClientPrices == {Scale, Scale + 1}
ClientQuantities == {Scale \div 2, Scale}
ClientOrders == {<<LIMIT, p>> : p \in ClientPrices} \cup {<<MARKET, NoPrice>>}

\* Lines 187-197: INCR counters:order_id, and the Order object.
redis_create_order(c) ==
    /\ clients[c].pc = "idle"
    /\ \E u \in Submitters, s \in Symbols, sd \in OrderSide, q \in ClientQuantities,
          tp \in ClientOrders :
          clients' = [clients EXCEPT ![c] =
              [IdleClient EXCEPT !.pc = "created",
                                 !.order = Order(redis.counters.order_id + 1, u, s, sd,
                                                 tp[1], q, tp[2], NoPrice)]]
    /\ redis' = [redis EXCEPT !.counters.order_id = @ + 1]
    /\ UNCHANGED <<engine_side, published, outer>>

\* Lines 200-217: pipe.execute().
redis_execute_pipeline(c) ==
    /\ clients[c].pc = "created"
    /\ redis' = execute_pipeline(redis, clients[c].order)
    /\ clients' = [clients EXCEPT ![c].pc = "stored"]
    /\ UNCHANGED <<engine_side, published, outer>>

\* Lines 536-539: EVAL of the matching script; it returns or raises.
redis_eval_script(c) ==
    LET run == matching_script(redis, script_argv(clients[c].order))
    IN /\ clients[c].pc = "stored"
       /\ redis' = run.store
       /\ clients' = [clients EXCEPT
              ![c].pc = IF run.failed THEN "failed" ELSE "matched",
              ![c].remaining = lua_to_integer(run.remaining_quantity)]
       /\ UNCHANGED <<engine_side, published, outer>>

\* Lines 541-545: the write-back.
redis_write_back(c) ==
    LET written == write_back(redis, clients[c].order, clients[c].remaining)
    IN /\ clients[c].pc = "matched"
       /\ redis' = written.store
       /\ clients' = [clients EXCEPT ![c].pc = "written", ![c].order = written.order]
       /\ UNCHANGED <<engine_side, published, outer>>

\* Lines 222-225: _publish_order_update(order), then add_order returns the order.
redis_publish_order_update(c) ==
    /\ clients[c].pc = "written"
    /\ published' = publish_order_update(published, clients[c].order)
    /\ clients' = [clients EXCEPT ![c].pc = "returned"]
    /\ UNCHANGED <<engine_side, redis, outer>>

\* Line 230: DEL order:<id>.
redis_rollback_hash(c) ==
    /\ clients[c].pc = "failed"
    /\ redis' = rollback_hash(redis, clients[c].order)
    /\ clients' = [clients EXCEPT ![c].pc = "hash deleted"]
    /\ UNCHANGED <<engine_side, published, outer>>

\* Line 231: SREM user:<user_id>:orders.
redis_rollback_user(c) ==
    /\ clients[c].pc = "hash deleted"
    /\ redis' = rollback_user(redis, clients[c].order)
    /\ clients' = [clients EXCEPT ![c].pc = "user index cleared"]
    /\ UNCHANGED <<engine_side, published, outer>>

\* Lines 232-233: SREM symbol:<symbol>:orders, and the exception goes on up.
redis_rollback_symbol(c) ==
    /\ clients[c].pc = "user index cleared"
    /\ redis' = rollback_symbol(redis, clients[c].order)
    /\ clients' = [clients EXCEPT ![c].pc = "raised"]
    /\ UNCHANGED <<engine_side, published, outer>>

NextRedis ==
    \E c \in Clients :
        \/ redis_create_order(c)
        \/ redis_execute_pipeline(c)
        \/ redis_eval_script(c)
        \/ redis_write_back(c)
        \/ redis_publish_order_update(c)
        \/ redis_rollback_hash(c)
        \/ redis_rollback_user(c)
        \/ redis_rollback_symbol(c)

SpecRedis == Init /\ [][NextRedis]_<<vars, bystanders>>

\* add_order is one synchronous call: after the write-back the same thread goes
\* on to line 223, so a pending publication is eventually made.
SpecRedisFair ==
    SpecRedis /\ \A c \in Clients : WF_<<vars, bystanders>>(redis_publish_order_update(c))

\* RedisOrderBook.add_order run alone, from INCR to return or raise: the store
\* it leaves, whether it raised, the order it returns and what it published.
run_add_order(store, call) ==
    LET id == store.counters.order_id + 1
        order == Order(id, call.user_id, call.symbol, call.side, call.order_type,
                       call.quantity, call.price, call.stop_price)
        stored == execute_pipeline([store EXCEPT !.counters.order_id = id], order)
        run == matching_script(stored, script_argv(order))
        written == write_back(run.store, order, lua_to_integer(run.remaining_quantity))
    IN IF run.failed
       THEN [store |-> rollback_symbol(rollback_user(rollback_hash(run.store, order),
                                                     order), order),
             raised |-> TRUE, order |-> order, messages |-> <<>>]
       ELSE [store |-> written.store, raised |-> FALSE, order |-> written.order,
             messages |-> publish_order_update(<<>>, written.order)]

\* The store two calls leave is compared below: the store alone.
serial_add_order(store, call) == run_add_order(store, call).store

\* Every client's call is over.
AllCallsOver == \A c \in Clients : clients[c].pc \in {"returned", "raised"}

\* The client whose order has the id.
ClientOf(ids, id) == CHOOSE c \in Clients : ids[c] = id

\* The stored state with each order named by the client that submitted it:
\* status and filled_quantity of each order, the lists, metadata and sorted
\* sets of the price levels, and the trade stream.
StoredState(store, ids) ==
    [orders |-> [c \in Clients |->
                    IF ids[c] \in DOMAIN store.hashes
                    THEN <<store.hashes[ids[c]].status, store.hashes[ids[c]].filled_quantity>>
                    ELSE <<>>],
     lists |-> [k \in DOMAIN store.lists |->
                   [i \in 1..Len(store.lists[k]) |-> ClientOf(ids, store.lists[k][i])]],
     meta |-> store.meta,
     zsets |-> store.zsets,
     streams |-> [s \in Symbols |->
                     [i \in 1..Len(store.streams[s]) |->
                         [buyer |-> ClientOf(ids, store.streams[s][i].buy_order_id),
                          seller |-> ClientOf(ids, store.streams[s][i].sell_order_id),
                          quantity |-> store.streams[s][i].quantity,
                          price |-> store.streams[s][i].price]]]]

\* The stored state after the two calls run one after the other, `first` first.
SerialState(first) ==
    LET second == CHOOSE c \in Clients : c # first
        after == serial_add_order(serial_add_order(EmptyStore, clients[first].order),
                                  clients[second].order)
    IN StoredState(after, [c \in Clients |-> IF c = first THEN 1 ELSE 2])

\* ------------------------------------------------------------- two symbols
\* One caller trading two symbols on one OrderBook.
SymbolsAddLimit ==
    \E u \in Submitters, s \in AllSymbols, sd \in OrderSide, p \in Prices, q \in Quantities :
        add_order(u, s, sd, LIMIT, q, p, NoPrice) /\ UNCHANGED bystanders

SymbolsAddMarket ==
    \E u \in Submitters, s \in AllSymbols, sd \in OrderSide, q \in Quantities :
        add_order(u, s, sd, MARKET, q, NoPrice, NoPrice) /\ UNCHANGED bystanders

SymbolsCancel ==
    \E oid \in DOMAIN orders :
        cancel_order(oid, orders[oid].user_id) /\ UNCHANGED bystanders

NextSymbols == SymbolsAddLimit \/ SymbolsAddMarket \/ SymbolsCancel

SpecSymbols == Init /\ [][NextSymbols]_<<vars, bystanders>>

\* ------------------------------------------------------ reading the engine
\* Trade.executed_at is datetime.utcnow() at the moment the Trade is built.
\* Successive readings of the clock never go back, and two of them may give
\* the same value (the clock ticks in microseconds at best).
RECURSIVE Stamps(_, _)
Stamps(now, k) ==
    IF k = 0 THEN {<<>>}
    ELSE UNION {{<<t>> \o rest : rest \in Stamps(t, k - 1)} : t \in {now, now + 1}}

\* The trades the step has logged get their executed_at.
StampTrades ==
    LET logged == [s \in Symbols |-> Len(trades'[s]) - Len(trades[s])]
        k == SumOver(Symbols, logged)
    IN \E stamps \in Stamps(clock, k) :
          /\ executed_at' = [s \in Symbols |->
                                executed_at[s] \o (IF logged[s] > 0 THEN stamps ELSE <<>>)]
          /\ clock' = IF k = 0 THEN clock ELSE stamps[k]

\* sorted(..., key=executed_at, reverse=True) is stable: the next trade goes
\* behind every trade whose executed_at is not smaller than its own.
insert_by_executed_at(sorted, i, stamps) ==
    LET ahead == Cardinality({j \in 1..Len(sorted) : stamps[sorted[j]] >= stamps[i]})
    IN SubSeq(sorted, 1, ahead) \o <<i>> \o SubSeq(sorted, ahead + 1, Len(sorted))

RECURSIVE sorted_by_executed_at(_, _, _)
sorted_by_executed_at(sorted, i, stamps) ==
    IF i > Len(stamps) THEN sorted
    ELSE sorted_by_executed_at(insert_by_executed_at(sorted, i, stamps), i + 1, stamps)

\* OrderBook.get_recent_trades(symbol, limit)
get_recent_trades(symbol, limit) ==
    LET order == sorted_by_executed_at(<<>>, 1, executed_at[symbol])
        first == SubSeq(order, 1, Min(limit, Len(order)))
    IN [i \in 1..Len(first) |-> trades[symbol][first[i]]]

\* The depths and limits the readers ask for.
ReadDepths == 1..(MaxPrice + 2)
ReadLimits == 1..MaxOrders

\* The price levels the readers' books have: one more than MaxPrice, so that a
\* heap of three prices is read.
ReadPrices == 1..(MaxPrice + 1)

ReadsAddLimit ==
    /\ \E u \in Submitters, s \in Symbols, sd \in OrderSide, p \in ReadPrices :
          add_order(u, s, sd, LIMIT, 1, p, NoPrice)
    /\ StampTrades
    /\ UNCHANGED <<reading, beside_reads>>

ReadsAddMarket ==
    /\ \E u \in Submitters, s \in Symbols, sd \in OrderSide, q \in Quantities :
          add_order(u, s, sd, MARKET, q, NoPrice, NoPrice)
    /\ StampTrades
    /\ UNCHANGED <<reading, beside_reads>>

ReadsCancel ==
    /\ \E oid \in DOMAIN orders : cancel_order(oid, orders[oid].user_id)
    /\ UNCHANGED <<reads_side, beside_reads>>

GetOrderBook ==
    /\ \E s \in Symbols, depth \in ReadDepths :
          reading' = [op |-> "get_order_book", symbol |-> s, arg |-> depth,
                      rows |-> get_order_book(s, depth)]
    /\ UNCHANGED <<vars, clock, executed_at, beside_reads>>

GetRecentTrades ==
    /\ \E s \in Symbols, limit \in ReadLimits :
          reading' = [op |-> "get_recent_trades", symbol |-> s, arg |-> limit,
                      rows |-> get_recent_trades(s, limit)]
    /\ UNCHANGED <<vars, clock, executed_at, beside_reads>>

NextReads == ReadsAddLimit \/ ReadsAddMarket \/ ReadsCancel \/ GetOrderBook \/ GetRecentTrades

SpecReads == Init /\ [][NextReads]_<<vars, bystanders>>

\* ------------------------------------------------------------- OrderService
\* OrderStatus.REJECTED of the request schema (schemas/order.py).
REJECTED == "rejected"

\* The bodies posted to /orders: quantity 0 among the quantities, price and
\* stop_price given or left out.
BodyQuantities == {0, Scale}
BodyPrices == {NoPrice, Scale + 1}
BodyStopPrices == {NoPrice, Scale}
Bodies ==
    {body \in [symbol : Symbols, side : OrderSide, order_type : OrderType,
               quantity : BodyQuantities, price : BodyPrices,
               stop_price : BodyStopPrices] :
        body.order_type = MARKET => body.price = NoPrice /\ body.stop_price = NoPrice}

\* OrderBase: quantity = Field(..., gt=0); price and stop_price are None or gt=0.
order_create_valid(body) == body.quantity > 0

\* The checks at the head of OrderService.create_order: the detail of the
\* HTTPException they raise, or "" when they pass.
create_order_refusal(order_data) ==
    IF order_data.order_type = LIMIT /\ order_data.price = NoPrice
    THEN "Limit orders must have a price"
    ELSE IF order_data.order_type = STOP /\ order_data.stop_price = NoPrice
    THEN "Stop orders must have a stop price"
    ELSE ""

\* A submission the admission rules call invalid.
InvalidSubmission(body) == ~order_create_valid(body) \/ create_order_refusal(body) # ""

\* OrderService._order_to_dict(order)
order_to_dict(order) ==
    [id |-> order.id, user_id |-> order.user_id, symbol |-> order.symbol,
     side |-> order.side, order_type |-> order.order_type, quantity |-> order.quantity,
     filled_quantity |-> order.filled_quantity, price |-> order.price,
     stop_price |-> order.stop_price, status |-> order.status]

Response(op, request, outcome, order) ==
    [op |-> op, request |-> request, outcome |-> outcome, order |-> order]

\* OrderService.create_order(user_id, order_data)
create_order(user_id, order_data) ==
    LET refusal == create_order_refusal(order_data)
        call == [user_id |-> user_id, symbol |-> order_data.symbol,
                 side |-> order_data.side, order_type |-> order_data.order_type,
                 quantity |-> order_data.quantity, price |-> order_data.price,
                 stop_price |-> order_data.stop_price]
        run == run_add_order(redis, call)
    IN IF refusal # ""
       THEN /\ response' = Response("create_order", order_data, "HTTP 400", <<>>)
            /\ UNCHANGED <<redis, published>>
       ELSE /\ redis.counters.order_id < MaxOrders
            /\ redis' = run.store
            /\ published' = published \o run.messages
            /\ response' = IF run.raised
                           THEN Response("create_order", order_data, "ResponseError", <<>>)
                           ELSE Response("create_order", order_data, "ok",
                                         order_to_dict(run.order))

\* POST /orders (routes/order.py): the body is validated into an OrderCreate,
\* then handed to the service.
PostOrder ==
    \E u \in Submitters, body \in Bodies :
        /\ IF order_create_valid(body)
           THEN create_order(u, body)
           ELSE /\ response' = Response("create_order", body, "HTTP 422", <<>>)
                /\ UNCHANGED <<redis, published>>
        /\ UNCHANGED beside_service

\* A Python value as comparisons see it: text never equals a number.
Str(text) == [type |-> "str", text |-> text, value |-> 0]
Num(n) == [type |-> "number", text |-> int_repr(0), value |-> n]
None == [type |-> "NoneType", text |-> int_repr(0), value |-> 0]

\* Order.from_dict(data) on what HGETALL returns with decode_responses: the
\* three enums are rebuilt, missing optional fields become None, and every
\* other field is handed to Order(...) as the text it is.
from_dict(data) ==
    [id |-> Str(data.id), user_id |-> Str(data.user_id), symbol |-> data.symbol,
     side |-> data.side, order_type |-> data.order_type,
     quantity |-> Str(data.quantity), filled_quantity |-> Str(data.filled_quantity),
     price |-> IF "price" \in DOMAIN data THEN Str(data.price) ELSE None,
     stop_price |-> IF "stop_price" \in DOMAIN data THEN Str(data.stop_price) ELSE None,
     status |-> data.status]

\* Order.to_dict() of an order built by from_dict: text goes back as it came.
to_dict_of_read(order) ==
    LET data == [id |-> order.id.text, user_id |-> order.user_id.text,
                 symbol |-> order.symbol, side |-> order.side,
                 order_type |-> order.order_type, quantity |-> order.quantity.text,
                 filled_quantity |-> order.filled_quantity.text, status |-> order.status]
        priced == IF order.price = None THEN data ELSE Put(data, "price", order.price.text)
    IN IF order.stop_price = None THEN priced
       ELSE Put(priced, "stop_price", order.stop_price.text)

\* The ids and users of the lookups: every id handed out and one more.
LookupIds == 1..(MaxOrders + 1)

\* RedisOrderBook.get_order(order_id, user_id)
redis_get_order(order_id, user_id) ==
    LET request == [order_id |-> order_id, user_id |-> user_id]
    IN /\ response' =
             IF order_id \notin DOMAIN redis.hashes
             THEN Response("get_order", request, "Order not found", <<>>)
             ELSE IF from_dict(redis.hashes[order_id]).user_id # Num(user_id)
             THEN Response("get_order", request, "Order does not belong to user", <<>>)
             ELSE Response("get_order", request, "ok", from_dict(redis.hashes[order_id]))
       /\ UNCHANGED <<redis, published>>

\* cancel_order's checks with user ids compared as numbers, as they would be
\* were from_dict to convert the fields it reads.
cancel_refusal_by_number(order, user_id) ==
    IF tonumber(order.user_id.text) # user_id * Scale
    THEN "Order does not belong to user"
    ELSE IF order.status \in {FILLED, CANCELLED} THEN "Cannot cancel order"
    ELSE ""

\* The checks cancel_order makes on the order it has read: the error it
\* raises, or "" when the order may be cancelled.
cancel_refusal(order, user_id) ==
    IF order.user_id # Num(user_id) THEN "Order does not belong to user"
    ELSE IF order.status \in {FILLED, CANCELLED} THEN "Cannot cancel order"
    ELSE ""

\* What cancel_order does once `order`, the copy it read, has passed the
\* checks: it writes the copy back as CANCELLED and publishes it.  For a LIMIT
\* order with a price _remove_from_order_book_pipeline first computes
\* int(order.quantity * 100000000) on the text of the quantity, which raises
\* before anything is sent.
cancel_write(store, order_id, order) ==
    LET cancelled == [order EXCEPT !.status = CANCELLED]
    IN IF order.order_type = LIMIT /\ order.price # None
       THEN [store |-> store, outcome |-> "ValueError", order |-> <<>>,
             messages |-> <<>>]
       ELSE [store |-> [store EXCEPT
                          !.hashes = Put(@, order_id, to_dict_of_read(cancelled))],
             outcome |-> "ok", order |-> cancelled,
             messages |-> <<[channel |-> cancelled.symbol, order_id |-> cancelled.id,
                             symbol |-> cancelled.symbol, side |-> cancelled.side,
                             status |-> cancelled.status,
                             quantity |-> cancelled.quantity,
                             filled_quantity |-> cancelled.filled_quantity,
                             price |-> cancelled.price]>>]

\* cancel_order from the reply of its HGETALL on: `present` and `data` are
\* what the read returned, `store` is the store the writes reach.
cancel_after_read(store, order_id, user_id, present, data) ==
    LET quiet(outcome) == [store |-> store, outcome |-> outcome, order |-> <<>>,
                           messages |-> <<>>]
    IN IF ~present THEN quiet("Order not found")
       ELSE IF cancel_refusal(from_dict(data), user_id) # ""
       THEN quiet(cancel_refusal(from_dict(data), user_id))
       ELSE cancel_write(store, order_id, from_dict(data))

\* RedisOrderBook.cancel_order(order_id, user_id) run with nothing else
\* touching the store between its read and its writes.
run_cancel_order(store, order_id, user_id) ==
    IF order_id \in DOMAIN store.hashes
    THEN cancel_after_read(store, order_id, user_id, TRUE, store.hashes[order_id])
    ELSE cancel_after_read(store, order_id, user_id, FALSE, <<>>)

redis_cancel_order(order_id, user_id) ==
    LET run == run_cancel_order(redis, order_id, user_id)
    IN /\ redis' = run.store
       /\ published' = published \o run.messages
       /\ response' = Response("cancel_order",
                               [order_id |-> order_id, user_id |-> user_id],
                               run.outcome, run.order)

StoreGetOrder ==
    \E order_id \in LookupIds, user_id \in Requesters :
        redis_get_order(order_id, user_id) /\ UNCHANGED beside_service

StoreCancelOrder ==
    \E order_id \in LookupIds, user_id \in Requesters :
        redis_cancel_order(order_id, user_id) /\ UNCHANGED beside_service

NextService == PostOrder \/ StoreGetOrder \/ StoreCancelOrder

SpecService == Init /\ [][NextService]_<<vars, bystanders>>

\* ------------------------------------------------------- ConnectionManager
\* routes/websocket.py.  The event loop runs one coroutine at a time and hands
\* over only at an await, so what lies between two awaits is one step.  A send
\* is an await: the message is with the socket when the send completes.  The
\* requests a client makes on an open socket (ping, get_order_book,
\* get_recent_trades) stay outside: they never touch the manager's registry.

\* datetime.utcnow() as json.dumps meets it: an object json cannot encode.
datetime == [type |-> "datetime"]

\* The rows get_order_book builds for one side (lines 357-381): a row for every
\* listed price whose level has its meta hash.
RECURSIVE store_rows(_, _, _, _)
store_rows(store, symbol, side, members) ==
    IF members = <<>> THEN <<>>
    ELSE LET price == tonumber(Head(members))
             price_key == get_price_key(symbol, side, price)
             rest == store_rows(store, symbol, side, Tail(members))
         IN IF price_key \in DOMAIN store.meta
            THEN <<[price |-> price,
                    total_quantity |-> store.meta[price_key].total_quantity,
                    order_count |-> store.meta[price_key].order_count]>> \o rest
            ELSE rest

\* RedisOrderBook.get_order_book(symbol, depth) (redis_order_book.py, lines
\* 350-390).
redis_get_order_book(store, symbol, depth) ==
    LET first(members) == SubSeq(members, 1, Min(depth, Len(members)))
        bid_prices == first(zrevrange(Get(store.zsets, <<symbol, "bids">>, {})))
        ask_prices == first(zrange(Get(store.zsets, <<symbol, "asks">>, {})))
    IN [symbol |-> symbol,
        bids |-> store_rows(store, symbol, BUY, bid_prices),
        asks |-> store_rows(store, symbol, SELL, ask_prices),
        timestamp |-> datetime]

\* json.dumps(message) raises TypeError on a value it cannot encode; the
\* messages here carry one only as the timestamp of an order book.
json_dumps_raises(message) ==
    /\ "data" \in DOMAIN message
    /\ "timestamp" \in DOMAIN message.data
    /\ message.data.timestamp = datetime

\* Lines 65-78 up to the send: the text connect is about to send first.
first_message(store, symbol) ==
    LET snapshot == [type |-> "order_book_snapshot",
                     data |-> redis_get_order_book(store, symbol, 20)]
    IN IF json_dumps_raises(snapshot) THEN "error" ELSE snapshot.type

\* x in list, and list.remove(x).
list_contains(list, x) == \E i \in DOMAIN list : list[i] = x

RECURSIVE list_remove(_, _)
list_remove(list, x) ==
    IF list = <<>> THEN <<>>
    ELSE IF Head(list) = x THEN Tail(list)
    ELSE <<Head(list)>> \o list_remove(Tail(list), x)

\* The manager's fields as one value, for the helpers to thread.
Manager(connections, total, st) ==
    [active_connections |-> connections, total_connections |-> total, stats |-> st]

\* A variant without the two membership tests: it counts down whatever it is
\* given.
disconnect_unguarded(m, websocket, symbol) ==
    LET listed == Get(m.active_connections, symbol, <<>>)
        remaining == list_remove(listed, websocket)
        total == m.total_connections - 1
    IN IF remaining = <<>>
       THEN Manager(Drop(m.active_connections, symbol), total,
                [m.stats EXCEPT !.total_connections = total])
       ELSE Manager(Put(m.active_connections, symbol, remaining), total,
                [m.stats EXCEPT !.total_connections = total])

\* ConnectionManager.disconnect(websocket, symbol) (lines 80-95).
disconnect(m, websocket, symbol) ==
    IF /\ symbol \in DOMAIN m.active_connections
       /\ list_contains(m.active_connections[symbol], websocket)
    THEN LET remaining == list_remove(m.active_connections[symbol], websocket)
             total == m.total_connections - 1
         IN IF remaining = <<>>
            THEN LET left == Drop(m.active_connections, symbol)
                 IN Manager(left, total,
                        [m.stats EXCEPT !.total_connections = total,
                                        !.symbols_count = Cardinality(DOMAIN left),
                                        !.connections_per_symbol = Drop(@, symbol)])
            ELSE Manager(Put(m.active_connections, symbol, remaining), total,
                     [m.stats EXCEPT !.total_connections = total,
                                     !.connections_per_symbol = Put(@, symbol, Len(remaining))])
    ELSE m

\* Lines 53-62 of connect: the socket is registered and counted.
register(m, websocket, symbol) ==
    LET listed == Append(Get(m.active_connections, symbol, <<>>), websocket)
        connections == Put(m.active_connections, symbol, listed)
        total == m.total_connections + 1
    IN Manager(connections, total,
           [m.stats EXCEPT !.total_connections = total,
                           !.symbols_count = Cardinality(DOMAIN connections),
                           !.connections_per_symbol = Put(@, symbol, Len(listed))])

\* A variant that finds no failed connection.
disconnected_of_none(connections, results) == <<>>

\* Lines 125-128 of broadcast_to_symbol: the connections whose send did not
\* return True, in the order of the copied list.
RECURSIVE disconnected_of(_, _)
disconnected_of(connections, results) ==
    IF connections = <<>> THEN <<>>
    ELSE LET rest == disconnected_of(Tail(connections), Tail(results))
         IN IF Head(results) = "sent" THEN rest ELSE <<Head(connections)>> \o rest

\* Lines 131-132: disconnect every failed connection.
RECURSIVE disconnect_all(_, _, _)
disconnect_all(m, disconnected, symbol) ==
    IF disconnected = <<>> THEN m
    ELSE disconnect_all(disconnect(m, Head(disconnected), symbol), Tail(disconnected), symbol)

\* Lines 42-51 of connect: the two limits, then close(1008) or accept().
ConnectCheck ==
    /\ \E w \in Sockets, symbol \in AllSymbols :
          /\ sockets[w].pc = "new"
          /\ sockets' = [sockets EXCEPT
                 ![w].symbol = symbol,
                 ![w].pc = IF \/ total_connections >= max_total_connections
                              \/ Len(Get(active_connections, symbol, <<>>))
                                     >= max_connections_per_symbol
                           THEN "refused" ELSE "accepting"]
    /\ UNCHANGED <<active_connections, total_connections, stats, broadcast>>
    /\ UNCHANGED beside_sockets

\* Lines 53-67 or 74 of connect: accept() has returned; the socket is
\* registered, the first message is built and its send is begun.
ConnectRegister ==
    /\ \E w \in Sockets :
          /\ sockets[w].pc = "accepting"
          /\ LET m == register(Manager(active_connections, total_connections, stats),
                               w, sockets[w].symbol)
             IN /\ active_connections' = m.active_connections
                /\ total_connections' = m.total_connections
                /\ stats' = m.stats
          /\ sockets' = [sockets EXCEPT
                 ![w].pc = "greeting",
                 ![w].first = first_message(redis, sockets[w].symbol)]
    /\ UNCHANGED broadcast
    /\ UNCHANGED beside_sockets

\* Lines 67-71 or 74-78: the first send completes, and connect returns to the
\* handler, which waits in receive_text (line 232).
ConnectGreet ==
    /\ \E w \in Sockets :
          /\ sockets[w].pc = "greeting"
          /\ sockets' = [sockets EXCEPT
                 ![w].pc = "open",
                 ![w].inbox = Append(@, [type |-> sockets[w].first,
                                         symbol |-> sockets[w].symbol, seq |-> 0])]
          /\ stats' = IF sockets[w].first = "error"
                      THEN [stats EXCEPT !.errors_count = @ + 1]
                      ELSE [stats EXCEPT !.messages_sent = @ + 1]
    /\ UNCHANGED <<active_connections, total_connections, broadcast>>
    /\ UNCHANGED beside_sockets

\* The client is gone before the first send: send_text raises, in the try and
\* again in the except branch (line 74), connect raises into the handler
\* outside its try (line 227), and the handler ends without disconnect.
ConnectGreetFails ==
    /\ \E w \in Sockets :
          /\ sockets[w].pc = "greeting"
          /\ sockets' = [sockets EXCEPT ![w].pc = "dead"]
    /\ UNCHANGED <<active_connections, total_connections, stats, broadcast>>
    /\ UNCHANGED beside_sockets

\* Lines 270-271: receive_text raises WebSocketDisconnect and the handler
\* calls manager.disconnect.
HandlerDisconnect ==
    /\ \E w \in Sockets :
          /\ sockets[w].pc = "open"
          /\ LET m == disconnect(Manager(active_connections, total_connections, stats),
                                 w, sockets[w].symbol)
             IN /\ active_connections' = m.active_connections
                /\ total_connections' = m.total_connections
                /\ stats' = m.stats
          /\ sockets' = [sockets EXCEPT ![w].pc = "closed"]
    /\ UNCHANGED broadcast
    /\ UNCHANGED beside_sockets

\* Lines 172-181 and 112-122: the listener takes a message of some symbol and
\* calls broadcast_to_symbol, which copies the list and starts one send for
\* each connection in it.
BroadcastBegin ==
    /\ broadcast.pc = "idle"
    /\ broadcast.seq < MaxBroadcasts
    /\ \E symbol \in AllSymbols :
          broadcast' =
              IF symbol \in DOMAIN active_connections
              THEN [pc |-> "sending", symbol |-> symbol, seq |-> broadcast.seq + 1,
                    connections |-> active_connections[symbol],
                    results |-> [i \in DOMAIN active_connections[symbol] |-> "pending"]]
              ELSE [IdleBroadcast EXCEPT !.seq = broadcast.seq + 1]
    /\ UNCHANGED <<active_connections, total_connections, stats, sockets>>
    /\ UNCHANGED beside_sockets

\* _send_to_connection (lines 97-108), one of the gathered sends: it returns
\* True, or the client is gone and it returns False; on a socket whose handler
\* has ended, send_text raises and the error is counted.
SendToConnection ==
    /\ broadcast.pc = "sending"
    /\ \E i \in DOMAIN broadcast.connections :
          LET w == broadcast.connections[i]
          IN /\ broadcast.results[i] = "pending"
             /\ \/ /\ sockets[w].pc \notin {"closed", "dead"}
                   /\ sockets' = [sockets EXCEPT ![w].inbox =
                          Append(@, [type |-> "order_update",
                                     symbol |-> broadcast.symbol, seq |-> broadcast.seq])]
                   /\ stats' = [stats EXCEPT !.messages_sent = @ + 1]
                   /\ broadcast' = [broadcast EXCEPT !.results[i] = "sent"]
                \/ /\ sockets[w].pc \notin {"closed", "dead"}
                   /\ broadcast' = [broadcast EXCEPT !.results[i] = "WebSocketDisconnect"]
                   /\ UNCHANGED <<sockets, stats>>
                \/ /\ sockets[w].pc \in {"closed", "dead"}
                   /\ stats' = [stats EXCEPT !.errors_count = @ + 1]
                   /\ broadcast' = [broadcast EXCEPT !.results[i] = "Exception"]
                   /\ UNCHANGED sockets
    /\ UNCHANGED <<active_connections, total_connections>>
    /\ UNCHANGED beside_sockets

\* Lines 122-132: gather has every result; the failed connections are
\* disconnected and broadcast_to_symbol returns to the listener.
BroadcastEnd ==
    /\ broadcast.pc = "sending"
    /\ \A i \in DOMAIN broadcast.results : broadcast.results[i] # "pending"
    /\ LET m == disconnect_all(Manager(active_connections, total_connections, stats),
                               disconnected_of(broadcast.connections, broadcast.results),
                               broadcast.symbol)
       IN /\ active_connections' = m.active_connections
          /\ total_connections' = m.total_connections
          /\ stats' = m.stats
    /\ broadcast' = [IdleBroadcast EXCEPT !.seq = broadcast.seq]
    /\ UNCHANGED sockets
    /\ UNCHANGED beside_sockets

NextSockets ==
    \/ ConnectCheck
    \/ ConnectRegister
    \/ ConnectGreet
    \/ ConnectGreetFails
    \/ HandlerDisconnect
    \/ BroadcastBegin
    \/ SendToConnection
    \/ BroadcastEnd

SpecSockets == Init /\ [][NextSockets]_<<vars, bystanders>>

\* ------------------------------------------- RedisOrderBook, call after call
\* One caller of the store-backed book: each call runs from its first command
\* to its return before the next begins.

\* The depths get_order_book is asked for: one level, and the default.
StoreDepths == {1, 10}

\* RedisOrderBook.add_order(user_id, symbol, side, order_type, quantity, price)
\* (lines 172-233).
redis_add_order(call) ==
    LET run == run_add_order(redis, call)
    IN /\ redis' = run.store
       /\ published' = published \o run.messages
       /\ response' = IF run.raised
                      THEN Response("add_order", call, "ResponseError", <<>>)
                      ELSE Response("add_order", call, "ok", run.order)

StoreAddOrder ==
    /\ redis.counters.order_id < MaxOrders
    /\ \E u \in Submitters, s \in Symbols, sd \in OrderSide, q \in ClientQuantities,
          tp \in ClientOrders :
          redis_add_order([user_id |-> u, symbol |-> s, side |-> sd, order_type |-> tp[1],
                           quantity |-> q, price |-> tp[2], stop_price |-> NoPrice])
    /\ UNCHANGED beside_service

\* RedisOrderBook.get_order_book(symbol, depth): a read.
StoreGetOrderBook ==
    /\ \E s \in Symbols, depth \in StoreDepths :
          response' = Response("get_order_book", [symbol |-> s, depth |-> depth], "ok",
                               redis_get_order_book(redis, s, depth))
    /\ UNCHANGED <<redis, published>>
    /\ UNCHANGED beside_service

NextStore ==
    \/ StoreAddOrder
    \/ StoreGetOrder
    \/ StoreCancelOrder
    \/ StoreGetOrderBook

SpecStore == Init /\ [][NextStore]_<<vars, bystanders>>

\* ------------------------------------------- cancel_order beside add_order
\* One client inside cancel_order while others run add_order, one add_order at
\* a time, so that whatever departs from a serial order comes from cancel_order.

\* Line 263: HGETALL order:<order_id>; what it returns stays with the client.
cancel_hgetall ==
    /\ canceller.pc = "idle"
    /\ \E order_id \in LookupIds, user_id \in Requesters :
          canceller' = [IdleCanceller EXCEPT
              !.pc = "read", !.order_id = order_id, !.user_id = user_id,
              !.present = (order_id \in DOMAIN redis.hashes),
              !.data = Get(redis.hashes, order_id, <<>>)]
    /\ UNCHANGED <<engine_side, store_side, response, reads_side, socket_side>>

\* Lines 264-293: the checks on what was read and, past them, the pipeline
\* (one MULTI/EXEC) and the PUBLISH, which reach the store as it is by then.
cancel_finish ==
    LET run == cancel_after_read(redis, canceller.order_id, canceller.user_id,
                                 canceller.present, canceller.data)
    IN /\ canceller.pc = "read"
       /\ redis' = run.store
       /\ published' = published \o run.messages
       /\ canceller' = [canceller EXCEPT !.pc = "done", !.outcome = run.outcome]
       /\ UNCHANGED <<engine_side, clients, response, reads_side, socket_side>>

\* No add_order is between its first and its last round trip.
NoneInFlight == \A c \in Clients : clients[c].pc \in {"idle", "returned", "raised"}

CancelAddBegins == NoneInFlight /\ \E c \in Clients : redis_create_order(c)

CancelAddGoesOn ==
    \E c \in Clients :
        \/ redis_execute_pipeline(c)
        \/ redis_eval_script(c)
        \/ redis_write_back(c)
        \/ redis_publish_order_update(c)
        \/ redis_rollback_hash(c)
        \/ redis_rollback_user(c)
        \/ redis_rollback_symbol(c)

NextCancel == CancelAddBegins \/ CancelAddGoesOn \/ cancel_hgetall \/ cancel_finish

SpecCancel == Init /\ [][NextCancel]_<<vars, bystanders>>

\* ------------------------------------------------------------------ claims

\* Time priority on one step: see C1 below.
C1_Step ==
    IsAddStep =>
        /\ \A m \in DOMAIN orders :
              orders'[m].filled_quantity > orders[m].filled_quantity =>
                  \A e \in DOMAIN orders :
                      ( /\ e < m
                        /\ orders[e].order_type = LIMIT
                        /\ Live(orders[e])
                        /\ orders[e].symbol = orders[m].symbol
                        /\ orders[e].side = orders[m].side
                        /\ orders[e].price = orders[m].price )
                      => orders'[e].filled_quantity = orders'[e].quantity
        /\ \A s \in Symbols :
              \A i, j \in 1..Len(NewTrades(s)) :
                  (i < j /\ NewTrades(s)[i].price = NewTrades(s)[j].price)
                  => MakerId(NewTrades(s)[i]) < MakerId(NewTrades(s)[j])

C2_Step ==
    IsAddStep =>
        \A s \in Symbols :
            LET new == NewTrades(s)
                incoming == orders'[next_order_id]
            IN /\ \A i, j \in 1..Len(new) :
                     i < j => IF incoming.side = BUY
                              THEN new[i].price <= new[j].price
                              ELSE new[i].price >= new[j].price
               /\ \A i \in 1..Len(new) :
                     \A r \in DOMAIN orders :
                         ( /\ orders[r].symbol = s
                           /\ orders[r].side = Opposite(incoming.side)
                           /\ r \in Queued(s, side_key_of(orders[r].side))
                           /\ IF incoming.side = BUY
                              THEN orders[r].price < new[i].price
                              ELSE orders[r].price > new[i].price )
                         => ~(Live(orders'[r]) /\ Remaining(orders'[r]) > 0)

C3_NoFilledOrderQueued ==
    \A id \in QueuedAnywhere : orders[id].status # FILLED

\* C4: every level's total_quantity is the sum of quantity - filled_quantity
\* over the orders queued at it.
C4_TotalIsRemaining ==
    \A s \in Symbols, k \in SideKeys : \A i \in 1..Len(price_levels[s][k]) :
        LET e == price_levels[s][k][i]
            ids == {e.orders[j] : j \in 1..Len(e.orders)}
        IN e.total_quantity = SumOver(ids, [id \in ids |-> Remaining(orders[id])])

\* C5: when get_order_book reports a bid and an ask, the best bid is strictly
\* below the best ask.
C5_BookNotCrossed ==
    \A s \in Symbols :
        LET book == get_order_book(s, 1)
        IN (book.bids # <<>> /\ book.asks # <<>>) => book.bids[1].price < book.asks[1].price

\* C6: every logged trade has a positive quantity, names a registered BUY order
\* and a registered SELL order of its symbol, and prints at the price of the
\* maker, the older of the two.
C6_TradeWellFormed ==
    \A t \in AllTrades :
        /\ t.quantity > 0
        /\ t.buy_order_id \in DOMAIN orders /\ t.sell_order_id \in DOMAIN orders
        /\ orders[t.buy_order_id].side = BUY /\ orders[t.sell_order_id].side = SELL
        /\ orders[t.buy_order_id].symbol = t.symbol
        /\ orders[t.sell_order_id].symbol = t.symbol
        /\ orders[MakerId(t)].order_type = LIMIT
        /\ t.price = orders[MakerId(t)].price

\* C6 witness: a LIMIT taker priced differently from the maker it traded with.
C6_Witness ==
    \E t \in AllTrades :
        /\ orders[TakerId(t)].order_type = LIMIT
        /\ orders[TakerId(t)].price # orders[MakerId(t)].price
        /\ t.price = orders[MakerId(t)].price

\* C7: a LIMIT taker never trades at a price worse than its own: at most its
\* price when it buys, at least its price when it sells.
C7_LimitPriceRespected ==
    \A t \in AllTrades :
        orders[TakerId(t)].order_type = LIMIT =>
            IF orders[TakerId(t)].side = BUY
            THEN t.price <= orders[TakerId(t)].price
            ELSE t.price >= orders[TakerId(t)].price

\* C7 witness: a LIMIT buy traded at its limit and still has a remainder, while
\* a dearer ask stays resting untouched.
C7_Witness ==
    \E t \in AllTrades : \E r \in DOMAIN orders :
        /\ TakerId(t) = t.buy_order_id
        /\ orders[t.buy_order_id].order_type = LIMIT
        /\ orders[t.buy_order_id].status = PARTIAL
        /\ orders[r].side = SELL /\ Resting(r)
        /\ r < t.buy_order_id
        /\ orders[r].price > orders[t.buy_order_id].price
        /\ orders[r].filled_quantity = 0

\* A MARKET order against enough liquidity, on one step: see C8 below.
C8_Step ==
    IsAddStep =>
        LET incoming == orders'[next_order_id]
            new == NewTrades(incoming.symbol)
            idx == 1..Len(new)
        IN ( /\ incoming.order_type = MARKET
             /\ Liquidity(incoming.symbol, Opposite(incoming.side)) >= incoming.quantity )
           => /\ incoming.filled_quantity = incoming.quantity
              /\ incoming.status = FILLED
              /\ SumOver(idx, [i \in idx |-> new[i].quantity]) = incoming.quantity
              /\ \A i \in idx : TakerId(new[i]) = next_order_id

C9_Step ==
    IsAddStep =>
        LET incoming == orders'[next_order_id]
            L == Liquidity(incoming.symbol, Opposite(incoming.side))
        IN (incoming.order_type = MARKET /\ L < incoming.quantity)
           => /\ incoming.filled_quantity = L
              /\ \A s \in Symbols, k \in SideKeys :
                    \A i \in 1..Len(price_levels'[s][k]) :
                        \A j \in 1..Len(price_levels'[s][k][i].orders) :
                            price_levels'[s][k][i].orders[j] # next_order_id
              /\ incoming.status = CANCELLED

\* C9: a MARKET order of quantity Q that meets resting opposite liquidity L < Q
\* fills exactly L, is queued in no price level and ends CANCELLED.
C9_MarketRemainderCancelled == [][C9_Step]_vars

C12_PartialIffRestingLimit ==
    \A id \in DOMAIN orders :
        (orders[id].status = PARTIAL) <=>
            ( /\ 0 < orders[id].filled_quantity
              /\ orders[id].filled_quantity < orders[id].quantity
              /\ orders[id].order_type = LIMIT
              /\ id \in QueuedAnywhere )

\* The number of places (level, position) at which `id` is queued in `levels`.
Occurrences(levels, id) ==
    Cardinality({ij \in {<<i, j>> : i \in 1..Len(levels), j \in 1..MaxOrders} :
                    /\ ij[2] <= Len(levels[ij[1]].orders)
                    /\ levels[ij[1]].orders[ij[2]] = id})

\* The one level of its own symbol, side and price holds `id` once, and no
\* other level of any symbol or side holds it.
QueuedOnceAtOwnLevel(id) ==
    LET o == orders[id]
        own == price_levels[o.symbol][side_key_of(o.side)]
    IN /\ \E i \in 1..Len(own) :
             /\ own[i].price = o.price
             /\ Occurrences(<<own[i]>>, id) = 1
       /\ Occurrences(own, id) = 1
       /\ \A s \in Symbols, k \in SideKeys :
             <<s, k>> # <<o.symbol, side_key_of(o.side)>>
                 => Occurrences(price_levels[s][k], id) = 0

\* C13: every LIMIT order with status PENDING or PARTIAL is queued exactly
\* once, in the price level of its own symbol, side and price.
C13_LiveLimitQueuedOnce ==
    \A id \in DOMAIN orders :
        (orders[id].order_type = LIMIT /\ Live(orders[id])) => QueuedOnceAtOwnLevel(id)

\* C14: no order with status CANCELLED is queued in any price level.
C14_NoCancelledOrderQueued ==
    \A id \in QueuedAnywhere : orders[id].status # CANCELLED

\* C14 witness: a partially filled resting order was cancelled and is queued
\* nowhere, while the level it left still holds a younger order.
C14_Witness ==
    \E c, r \in DOMAIN orders :
        /\ orders[c].status = CANCELLED
        /\ orders[c].order_type = LIMIT /\ orders[c].price # NoPrice
        /\ orders[c].filled_quantity > 0
        /\ c \notin QueuedAnywhere
        /\ c < r
        /\ orders[r].side = orders[c].side /\ orders[r].price = orders[c].price
        /\ Resting(r)

\* The prices a side's heap holds, as a set.
HeapPrices(symbol, sk) ==
    {order_books[symbol][sk][i][2] : i \in 1..Len(order_books[symbol][sk])}

\* The keys of a side's price-level dict, as a set.
LevelPrices(symbol, sk) ==
    {price_levels[symbol][sk][i].price : i \in 1..Len(price_levels[symbol][sk])}

\* C15: every price level has order_count equal to the length of its queue and
\* positive, and each side's heap holds exactly the prices of the side's
\* levels, each once.
C15_LevelsAndHeapAgree ==
    \A s \in Symbols, k \in SideKeys :
        /\ \A i \in 1..Len(price_levels[s][k]) :
              /\ price_levels[s][k][i].order_count = Len(price_levels[s][k][i].orders)
              /\ price_levels[s][k][i].order_count > 0
        /\ HeapPrices(s, k) = LevelPrices(s, k)
        /\ Len(order_books[s][k]) = Cardinality(HeapPrices(s, k))
        /\ Len(price_levels[s][k]) = Cardinality(LevelPrices(s, k))

\* C15 witness: an ask level lost its only order to a fill and went with its
\* heap entry; a younger sell rests alone in the one level and heap entry left.
C15_Witness ==
    \E f, r \in DOMAIN orders :
        /\ orders[f].side = SELL /\ orders[r].side = SELL
        /\ orders[f].order_type = LIMIT
        /\ orders[f].status = FILLED /\ f \notin QueuedAnywhere
        /\ Resting(r) /\ r > f
        /\ orders[r].price # orders[f].price
        /\ Len(price_levels[orders[r].symbol]["asks"]) = 1
        /\ Len(order_books[orders[r].symbol]["asks"]) = 1

\* The filled quantity of the orders of `symbol` on `side`, summed.
FilledOn(symbol, side) ==
    LET ids == {id \in DOMAIN orders : orders[id].symbol = symbol /\ orders[id].side = side}
    IN SumOver(ids, [id \in ids |-> orders[id].filled_quantity])

\* The quantity of the trades logged for `symbol`, summed.
TradedOn(symbol) ==
    LET idx == 1..Len(trades[symbol])
    IN SumOver(idx, [i \in idx |-> trades[symbol][i].quantity])

C17_Step ==
    \A order_id \in 1..(MaxOrders + 1), user_id \in Requesters :
        cancel_order(order_id, user_id) =>
            LET unknown == order_id \notin DOMAIN orders
                foreign == ~unknown /\ orders[order_id].user_id # user_id
                closed == /\ ~unknown /\ ~foreign
                          /\ orders[order_id].status \in {FILLED, CANCELLED}
            IN /\ unknown => result'.outcome = "Order not found"
               /\ foreign => result'.outcome = "Order does not belong to user"
               /\ closed => result'.outcome = "Cannot cancel order"
               /\ (unknown \/ foreign \/ closed) =>
                     UNCHANGED <<orders, next_order_id, next_trade_id,
                                 order_books, price_levels, trades>>
               /\ ~(unknown \/ foreign \/ closed) =>
                     /\ result'.outcome = "ok"
                     /\ orders'[order_id].status = CANCELLED

\* C17: cancel_order fails with "Order not found" for an unknown id, with
\* "Order does not belong to user" for another user's order and with "Cannot
\* cancel order" for a FILLED or CANCELLED one, and a failed cancel leaves the
\* registry, every order, every level, every heap and every trade log unchanged.
C17_CancelErrors == [][C17_Step]_vars

\* C17 witness: a cancel has just been refused for an order that is already
\* CANCELLED, and a FILLED order is still queued at a level.
C17_Witness ==
    /\ result = Outcome("cancel_order", "Cannot cancel order")
    /\ \E c \in DOMAIN orders : orders[c].status = CANCELLED /\ orders[c].filled_quantity > 0
    /\ \E f \in QueuedAnywhere : orders[f].status = FILLED

C19_IdsUniqueAndIncreasing ==
    /\ \A t \in Creating :
          /\ threads[t].order.id \notin DOMAIN orders
          /\ \A u \in Creating \ {t} : threads[u].order.id # threads[t].order.id
    /\ \A s \in Symbols :
          /\ \A i, j \in 1..Len(trades[s]) : i < j => trades[s][i].id < trades[s][j].id
          /\ \A t \in Trading : \A i \in 1..Len(trades[s]) :
                trades[s][i].id < threads[t].trade.id
    /\ \A t \in Trading : \A u \in Trading \ {t} : threads[u].trade.id # threads[t].trade.id

\* C20: two add_order calls of RedisOrderBook on one symbol that run at the
\* same time (pipeline, script, write-back each) leave the stored state (every
\* order's status and filled_quantity, the price levels, the trade stream)
\* that the two calls leave when run one after the other, in one order or the
\* other.
C20_Linearizable ==
    AllCallsOver =>
        \E first \in Clients :
            StoredState(redis, [c \in Clients |-> clients[c].order.id]) = SerialState(first)

\* A STOP order admitted on one step, and the STOP orders a step finds: see
\* C21 below.
C21_Step ==
    IsAddStep =>
        LET incoming == orders'[next_order_id]
        IN /\ incoming.order_type = STOP
              => /\ result'.outcome = "ok"
                 /\ \A s \in Symbols, k \in SideKeys :
                       \A i \in 1..Len(price_levels'[s][k]) :
                           \A j \in 1..Len(price_levels'[s][k][i].orders) :
                               price_levels'[s][k][i].orders[j] # next_order_id
                 /\ trades' = trades
                 /\ \A id \in DOMAIN orders :
                       /\ orders'[id].filled_quantity = orders[id].filled_quantity
                       /\ orders'[id].status = orders[id].status
                 /\ incoming.status = PENDING
                 /\ incoming.filled_quantity = 0
           /\ \A id \in DOMAIN orders :
                 (orders[id].order_type = STOP /\ orders[id].status = PENDING)
                 => /\ orders'[id].status = PENDING
                    /\ orders'[id].filled_quantity = 0

\* C21: add_order with order_type STOP, with or without a limit price and
\* against any book, returns without error, queues the order in no price
\* level, makes no trade and changes the filled_quantity and status of no
\* other order; the STOP order is PENDING with filled_quantity 0 and later
\* submissions leave it so.
C21_StopAdmission == [][C21_Step]_vars

\* An invalid submission, on one step: see C22 below.
C22_Step ==
    (response'.op = "create_order" /\ InvalidSubmission(response'.request))
    => /\ response'.outcome = "ok"
       /\ response'.order.status = REJECTED
       /\ \E id \in DOMAIN redis'.hashes \ DOMAIN redis.hashes :
             redis'.hashes[id].status = REJECTED
       /\ redis'.lists = redis.lists
       /\ redis'.meta = redis.meta
       /\ redis'.zsets = redis.zsets
       /\ redis'.streams = redis.streams
       /\ published' = published

\* C22: a submission through OrderService.create_order that is invalid (LIMIT
\* without a price, STOP without a stop_price, quantity not positive) is
\* answered with an order record of status REJECTED, which is stored; no
\* price level changes, no trade is logged and nothing is published.
C22_InvalidStoredRejected == [][C22_Step]_<<vars, bystanders>>

\* The rows of one side as get_order_book should give them: as many as asked
\* for or as there are levels, each a level of the side as it stands, in
\* strict order of price, and no level left out is better than one given.
RowsAreBest(rows, levels, depth, side) ==
    /\ Len(rows) = Min(depth, Len(levels))
    /\ \A i \in 1..Len(rows) :
          \E j \in 1..Len(levels) :
              rows[i] = [price |-> levels[j].price,
                         total_quantity |-> levels[j].total_quantity,
                         order_count |-> levels[j].order_count]
    /\ \A i \in 1..(Len(rows) - 1) :
          IF side = BUY THEN rows[i].price > rows[i + 1].price
          ELSE rows[i].price < rows[i + 1].price
    /\ \A j \in 1..Len(levels) :
          (\A i \in 1..Len(rows) : rows[i].price # levels[j].price)
          => \A i \in 1..Len(rows) :
                IF side = BUY THEN levels[j].price < rows[i].price
                ELSE levels[j].price > rows[i].price

\* One get_order_book call: see C23 below.
C23_Step ==
    (reading' # reading /\ reading'.op = "get_order_book")
    => /\ reading'.rows.symbol = reading'.symbol
       /\ RowsAreBest(reading'.rows.bids, price_levels[reading'.symbol]["bids"],
                      reading'.arg, BUY)
       /\ RowsAreBest(reading'.rows.asks, price_levels[reading'.symbol]["asks"],
                      reading'.arg, SELL)
       /\ UNCHANGED <<orders, order_books, price_levels, trades>>

\* C23: get_order_book(symbol, depth) with depth >= 1 returns for each side
\* min(depth, number of price levels of the side) rows, the best levels of
\* the side (highest bids, lowest asks), bids strictly descending and asks
\* strictly ascending by price, each row with the price, total_quantity and
\* order_count of its level; the call leaves the book as it was.
C23_BookRead == [][C23_Step]_<<vars, bystanders>>

\* C23 witness: three ask levels whose heap list is not in price order, read
\* at depth 2: the two lowest, lowest first.
C23_Witness ==
    /\ reading.op = "get_order_book"
    /\ reading.arg = 2
    /\ Len(price_levels[reading.symbol]["asks"]) = 3
    /\ \E i \in 1..2 :
          order_books[reading.symbol]["asks"][i][2] > order_books[reading.symbol]["asks"][i + 1][2]
    /\ Len(reading.rows.asks) = 2
    /\ reading.rows.asks[1].price = 1
    /\ reading.rows.asks[2].price = 2

\* One get_recent_trades call: see C24 below.
C24_Step ==
    (reading' # reading /\ reading'.op = "get_recent_trades")
    => LET log == trades[reading'.symbol]
           n == Len(log)
           rows == reading'.rows
       IN /\ Len(rows) = Min(reading'.arg, n)
          /\ \A i \in 1..Len(rows) : rows[i] = log[n + 1 - i]
          /\ \A i \in 1..(Len(rows) - 1) : rows[i].id > rows[i + 1].id

\* C24: get_recent_trades(symbol, limit) returns min(limit, n) trades of the
\* n logged for the symbol, the last appended ones, newest first (trade ids
\* strictly decreasing), whatever their executed_at, two trades of one
\* submission with one executed_at included.
C24_RecentTrades == [][C24_Step]_<<vars, bystanders>>

\* The symbols a step acts on: the symbol of the order an add_order admits, or
\* of the order a cancel_order cancels.
ActedOn ==
    IF IsAddStep THEN {orders'[next_order_id].symbol}
    ELSE {orders[id].symbol : id \in {i \in DOMAIN orders : orders'[i] # orders[i]}}

\* One add_order or cancel_order: see C25 below.
C25_Step ==
    /\ Cardinality(ActedOn) <= 1
    /\ \A B \in AllSymbols \ ActedOn :
          /\ price_levels'[B] = price_levels[B]
          /\ order_books'[B] = order_books[B]
          /\ trades'[B] = trades[B]
          /\ \A id \in DOMAIN orders :
                orders[id].symbol = B
                => /\ orders'[id].status = orders[id].status
                   /\ orders'[id].filled_quantity = orders[id].filled_quantity

\* C25: an add_order or a cancel_order on symbol A leaves the price levels,
\* both heaps and the trade log of every other symbol B as they were, and the
\* status and filled_quantity of every order of symbol B.
C25_SymbolsIndependent == [][C25_Step]_<<vars, bystanders>>

\* C25 witness: one symbol has traded while an order of the other symbol rests
\* untouched, in a price level of the same price.
C25_Witness ==
    \E A \in AllSymbols, B \in AllSymbols :
        /\ A # B
        /\ Len(trades[A]) > 0
        /\ trades[B] = <<>>
        /\ \E id \in DOMAIN orders :
              /\ orders[id].symbol = B
              /\ orders[id].status = PENDING
              /\ orders[id].price = trades[A][1].price
              /\ \E k \in SideKeys : id \in Queued(B, k)

\* The order stored under `id`, as the numbers and names written by add_order.
StoredOrder(id) ==
    LET data == redis.hashes[id]
    IN [id |-> Num(tonumber(data.id) \div Scale),
        user_id |-> Num(tonumber(data.user_id) \div Scale),
        quantity |-> Num(tonumber(data.quantity)),
        filled_quantity |-> Num(tonumber(data.filled_quantity)),
        price |-> IF "price" \in DOMAIN data THEN Num(tonumber(data.price)) ELSE None,
        status |-> data.status]

\* One get_order or cancel_order on the store-backed book: see C26 below.
C26_Step ==
    LET id == response'.request.order_id
        u == response'.request.user_id
    IN /\ response'.op = "get_order"
          => IF id \notin DOMAIN redis.hashes
             THEN response'.outcome = "Order not found"
             ELSE IF StoredOrder(id).user_id # Num(u)
             THEN response'.outcome = "Order does not belong to user"
             ELSE /\ response'.outcome = "ok"
                  /\ \A f \in {"id", "user_id", "quantity", "filled_quantity",
                               "price", "status"} :
                        response'.order[f] = StoredOrder(id)[f]
       /\ response'.op = "cancel_order"
          => \/ id \notin DOMAIN redis.hashes
             \/ StoredOrder(id).user_id # Num(u)
             \/ StoredOrder(id).status # PENDING
             \/ /\ response'.outcome = "ok"
                /\ redis'.hashes[id].status = CANCELLED

\* C26: in the store-backed book get_order(id, u) on an order that add_order
\* created for user u returns it with the id, user_id, quantity,
\* filled_quantity, price and status that are stored, the values being the
\* numbers that were written; it fails with not-found for an unknown id and
\* with the ownership error exactly when the requester is not the owner; and
\* cancel_order(id, u) by the owner of a PENDING order succeeds.
C26_OrderLookup == [][C26_Step]_<<vars, bystanders>>

\* The stored order `id` no longer is as add_order first wrote it: its status
\* or its filled_quantity has changed.
Transitioned(id) ==
    /\ id \in DOMAIN redis.hashes
    /\ \/ redis.hashes[id].status # PENDING
       \/ tonumber(redis.hashes[id].filled_quantity) # 0

\* An order_update for the stored order `id`, on the channel of its symbol,
\* with the status and filled_quantity that are stored.
UpdatePublished(id) ==
    \E i \in DOMAIN published :
        /\ published[i].order_id = id
        /\ published[i].channel = redis.hashes[id].symbol
        /\ published[i].status = redis.hashes[id].status
        /\ published[i].filled_quantity = tonumber(redis.hashes[id].filled_quantity)

C28_SnapshotFirst ==
    \A w \in Sockets :
        sockets[w].inbox # <<>>
        => /\ sockets[w].inbox[1].type = "order_book_snapshot"
           /\ sockets[w].inbox[1].symbol = sockets[w].symbol

\* The socket is in some list of the registry.
RegisteredIn(connections, w) ==
    \E symbol \in DOMAIN connections : list_contains(connections[symbol], w)

\* Where in its inbox the socket has the order_update of broadcast n.
Delivered(w, n) ==
    {i \in DOMAIN sockets[w].inbox :
        sockets[w].inbox[i].type = "order_update" /\ sockets[w].inbox[i].seq = n}

\* One step of the listener's broadcast among the other coroutines: see C29.
C29_Step ==
    /\ \A w \in Sockets, n \in 1..MaxBroadcasts : Cardinality(Delivered(w, n)') <= 1
    /\ \A w \in Sockets : \A i \in DOMAIN sockets'[w].inbox :
          sockets'[w].inbox[i].type = "order_update"
          => sockets'[w].inbox[i].symbol = sockets'[w].symbol
    /\ (broadcast.pc = "idle" /\ broadcast'.pc = "sending")
       => broadcast'.connections = active_connections[broadcast'.symbol]
    /\ broadcast.pc = "sending"
       => \A w \in Sockets :
             Delivered(w, broadcast.seq)' # Delivered(w, broadcast.seq)
             => list_contains(broadcast.connections, w)
    /\ (broadcast.pc = "sending" /\ broadcast'.pc = "idle")
       => \A i \in DOMAIN broadcast.connections :
             LET w == broadcast.connections[i]
             IN /\ broadcast.results[i] # "sent"
                   => ~RegisteredIn(active_connections', w)
                /\ (broadcast.results[i] = "sent" /\ sockets[w].pc # "closed")
                   => /\ broadcast.symbol \in DOMAIN active_connections'
                      /\ list_contains(active_connections'[broadcast.symbol], w)

\* C29: one broadcast_to_symbol sends its message at most once to each
\* connection that was registered for the symbol when it started and to no
\* connection of another symbol; when it returns, every connection whose send
\* failed is out of active_connections, and every connection whose send
\* succeeded and whose handler has not disconnected it is still registered.
C29_DropPolicy == [][C29_Step]_<<vars, bystanders>>

\* A broadcast has returned: one open socket of the symbol has the message and
\* is registered, another open socket of the symbol was dropped without it.
C29_Witness ==
    /\ broadcast.pc = "idle"
    /\ broadcast.seq >= 1
    /\ \E w, v \in Sockets :
          /\ sockets[w].pc = "open" /\ sockets[v].pc = "open"
          /\ sockets[w].symbol = sockets[v].symbol
          /\ Delivered(w, broadcast.seq) # {}
          /\ RegisteredIn(active_connections, w)
          /\ Delivered(v, broadcast.seq) = {}
          /\ ~RegisteredIn(active_connections, v)

\* C30: for every symbol the trade log of the in-memory OrderBook never holds
\* more trades than the retention bound (10 000 in the program, RetentionBound
\* here): a trade appended to a full log pushes the oldest one out.
C30_TradeRetention ==
    \A s \in DOMAIN trades : Len(trades[s]) <= RetentionBound

\* The trades a step appends to the stream of a symbol.
NewStoreTrades(s) == SubSeq(redis'.streams[s], Len(redis.streams[s]) + 1, Len(redis'.streams[s]))

\* The resting side of a trade, and the key of the level it rested in.
StoreMakerId(taker, trade) ==
    IF trade.buy_order_id = taker THEN trade.sell_order_id ELSE trade.buy_order_id

\* The order ids that rested open at one price of one side before the step.
OpenAt(s, side, price) ==
    {id \in DOMAIN redis.hashes :
        /\ redis.hashes[id].symbol = s
        /\ redis.hashes[id].side = side
        /\ redis.hashes[id].order_type = LIMIT
        /\ redis.hashes[id].status \in {PENDING, PARTIAL}
        /\ "price" \in DOMAIN redis.hashes[id]
        /\ tonumber(redis.hashes[id].price) = price}

\* One add_order on the store-backed book: see C31 below.
C31_Step ==
    \A s \in Symbols : \A i \in DOMAIN NewStoreTrades(s) :
        LET trade == NewStoreTrades(s)[i]
            taker == redis'.counters.order_id
            maker == StoreMakerId(taker, trade)
        IN i = 1
           => \A other \in OpenAt(s, redis.hashes[maker].side,
                                  tonumber(redis.hashes[maker].price)) :
                 maker <= other

\* C31: in the store-backed book the resting orders of one symbol, side and
\* price are matched in the order of their admission: the first trade an
\* incoming order makes at a level is with the earliest-admitted order that
\* rests open there (the list is a FIFO queue).
C31_StoreTimePriority == [][C31_Step]_<<vars, bystanders>>

\* One add_order on the store-backed book: see C32 below.
C32_Step ==
    LET order == response'.order
        id == order.id
    IN (/\ response'.op = "add_order"
        /\ response'.outcome = "ok"
        /\ response' # response
        /\ order.order_type = LIMIT
        /\ order.filled_quantity < order.quantity)
       => /\ order.status = IF order.filled_quantity > 0 THEN PARTIAL ELSE PENDING
          /\ redis'.hashes[id].status = order.status

\* C32: a LIMIT order of the store-backed book that has an unfilled remainder
\* after matching is returned and stored PARTIAL if it was filled in part and
\* PENDING if it was not filled at all, never FILLED.
C32_RestingStatus == [][C32_Step]_<<vars, bystanders>>

\* One add_order on the store-backed book: see C33 below.
C33_Step ==
    LET order == response'.order
    IN (/\ response'.op = "add_order"
        /\ response'.outcome = "ok"
        /\ redis'.counters.order_id # redis.counters.order_id)
       => /\ order.id \in DOMAIN redis'.hashes
          /\ redis'.hashes[order.id].status = order.status
          /\ tonumber(redis'.hashes[order.id].filled_quantity) = order.filled_quantity
          /\ Len(published') = Len(published) + 1
          /\ published'[Len(published')].order_id = order.id
          /\ published'[Len(published')].status = order.status
          /\ published'[Len(published')].filled_quantity = order.filled_quantity

C34_LevelKeysAgree ==
    \A s \in Symbols : \A side \in OrderSide :
        \A e \in redis.zsets[get_order_book_key(s, side)] :
            script_price_key(s, side_key_of(side), e.member)
                = get_price_key(s, side, tonumber(e.member))

\* The level rows a get_order_book response reports for one side.
ReportedRows(side) == IF side = BUY THEN response.order.bids ELSE response.order.asks

C37_Step ==
    LET id == redis'.counters.order_id
    IN (/\ response'.op = "add_order"
        /\ response'.outcome = "ResponseError"
        /\ redis'.counters.order_id # redis.counters.order_id)
       => /\ id \notin DOMAIN redis'.hashes
          /\ \A u \in DOMAIN redis'.user_orders : id \notin redis'.user_orders[u]
          /\ \A s \in DOMAIN redis'.symbol_orders : id \notin redis'.symbol_orders[s]
          /\ \A k \in DOMAIN redis'.lists : ~list_contains(redis'.lists[k], id)
          /\ redis'.meta = redis.meta
          /\ redis'.zsets = redis.zsets

\* C37: when add_order of the store-backed book raises after its storing
\* pipeline has run, nothing of the order remains: not its hash, not its
\* entries in the user and symbol indexes, not its id in a price-level list,
\* and the level metadata and the sorted sets are as they were before the call.
C37_RollbackComplete == [][C37_Step]_<<vars, bystanders>>

\* C38: under every interleaving of connect calls, which suspend at accept
\* between the limit check and the registration, total_connections never
\* exceeds max_total_connections, no symbol has more than
\* max_connections_per_symbol registered connections, and a connection that
\* was refused for a limit is not registered.
C38_ConnectionLimits ==
    /\ total_connections <= max_total_connections
    /\ \A symbol \in DOMAIN active_connections :
          Len(active_connections[symbol]) <= max_connections_per_symbol
    /\ \A w \in Sockets :
          sockets[w].pc = "refused" => ~RegisteredIn(active_connections, w)

\* The lengths of the lists of the registry, added up.
RECURSIVE RegisteredCount(_, _)
RegisteredCount(connections, symbols) ==
    IF symbols = {} THEN 0
    ELSE LET symbol == CHOOSE x \in symbols : TRUE
         IN Len(connections[symbol]) + RegisteredCount(connections, symbols \ {symbol})

\* The books of the manager agree with its registry.
Accounted ==
    /\ total_connections = RegisteredCount(active_connections, DOMAIN active_connections)
    /\ total_connections >= 0
    /\ \A symbol \in DOMAIN active_connections : active_connections[symbol] # <<>>

\* One step of the manager: see C39 below.
C39_Step ==
    /\ Accounted
    /\ Accounted'
    /\ \A w \in Sockets :
          (/\ sockets[w].pc = "open"
           /\ sockets'[w].pc = "closed"
           /\ ~RegisteredIn(active_connections, w))
          => UNCHANGED <<active_connections, total_connections, stats>>
    /\ (/\ broadcast.pc = "sending"
        /\ broadcast'.pc = "idle"
        /\ \A i \in DOMAIN broadcast.connections :
              broadcast.results[i] # "sent"
              => ~RegisteredIn(active_connections, broadcast.connections[i]))
       => UNCHANGED <<active_connections, total_connections, stats>>

\* C39: in every reachable state total_connections is the sum of the lengths
\* of the lists of active_connections and is not negative, and no symbol is
\* kept with an empty list; a disconnect of a socket that is already out of
\* the registry (dropped by a broadcast and then disconnected by its handler,
\* or the other way round) changes nothing.
C39_Accounting == [][C39_Step]_<<vars, bystanders>>

\* Every broadcast has returned, none of the sockets lost its handler at the
\* first send, and more errors are counted than first messages were sent: a
\* send of a broadcast failed on a socket its handler had disconnected, and
\* the broadcast disconnected it again.
C39_Witness ==
    /\ broadcast.pc = "idle"
    /\ \A w \in Sockets : sockets[w].pc # "dead"
    /\ stats.errors_count > Cardinality({w \in Sockets : sockets[w].pc \in {"open", "closed"}})
    /\ Accounted

\* The live LIMIT orders queued on one side of a symbol.
LiveResting(symbol, side) ==
    {id \in Queued(symbol, side_key_of(side)) :
        Live(orders[id]) /\ orders[id].order_type = LIMIT /\ orders[id].side = side}

CancelSerialStore(position) ==
    LET first == CHOOSE c \in Clients : clients[c].order.id = 1
        second == CHOOSE c \in Clients : c # first
        add(store, c) == serial_add_order(store, clients[c].order)
        cancel(store) ==
            run_cancel_order(store, canceller.order_id, canceller.user_id).store
    IN IF position = 0 THEN add(add(cancel(EmptyStore), first), second)
       ELSE IF position = 1 THEN add(cancel(add(EmptyStore, first)), second)
       ELSE cancel(add(add(EmptyStore, first), second))

====
